---------------------------- MODULE Spec2Model ----------------------------
(***************************************************************************)
(* A model of services/mathWordParserService.ts: the Word-to-exam parser.  *)
(*                                                                         *)
(* A text is a sequence of characters, each character a one-element        *)
(* string.  Vietnamese letters are written by their Telex name             *)
(* ("aa" for a-circumflex, "owf" for o-horn-grave, "DD" for D-stroke ...): *)
(* one name is one character of the NFC text the extractor produces.       *)
(* Indices into paragraphs are the code's 0-based indices; paragraph i of  *)
(* the code is paragraphs[i + 1] here.                                     *)
(***************************************************************************)
EXTENDS Integers, Sequences, FiniteSets, TLC

VARIABLES
    paragraphs,      \* ParagraphData[] handed to parseAllQuestions
    images,          \* ImageData[] of the Media Resolver
    pc,              \* position in parseAllQuestions
    sectionInfo,     \* result of detectSections
    i,               \* loop index of the running section parser
    loc,             \* local variables of the running section parser
    part1Questions,  \* result of parsePart1WithUnderline
    part2Questions,  \* result of parsePart2
    part3Questions,  \* result of parsePart3
    examData,        \* the ExamData under construction / returned
    rawText,         \* the argument of a call of escapeHtmlPreserveLaTeX
    escaped,         \* what the sanitizer returned, call after call
    file,            \* the File handed to parseWordToExam, as JSZip sees it
    call,            \* the running call of parseWordToExam
    data,            \* the ExamData handed to validateExamData
    validation,      \* what validateExamData returned: <<>> before the call
    attaching,       \* attachImages called on one question: assets, q.images, rIds
    latex,           \* the argument of normalizeLatex and what it returned
    extraction,      \* extractParagraphsWithUnderline over one w:p element
    calls            \* two calls of parseWordToExam running interleaved

\* the variables of parseAllQuestions
parserVars == <<paragraphs, images, pc, sectionInfo, i, loc,
                part1Questions, part2Questions, part3Questions, examData>>

\* the variables of escapeHtmlPreserveLaTeX modelled on its own
sanitizerVars == <<rawText, escaped>>

\* the variables of parseWordToExam around parseAllQuestions
containerVars == <<file, call>>

\* the variables parseAllQuestions leaves alone
\* the variables of validateExamData modelled on its own
validatorVars == <<data, validation>>

\* the variables of the functions modelled on their own further below
unitVars == <<attaching, latex, extraction, calls>>

otherVars == <<sanitizerVars, containerVars, validatorVars, unitVars>>

vars == <<parserVars, otherVars>>

-----------------------------------------------------------------------------
(* Bounds of the model *)

\* longest paragraph sequence handed to parseAllQuestions
MaxParagraphs == 4

\* longest text handed to escapeHtmlPreserveLaTeX on its own
MaxTextLen == 7

\* the sanitizer is applied to its own output up to this many times in all
MaxApplications == 2

\* most entries in the container handed to parseWordToExam
MaxEntries == 3

\* most questions in the ExamData handed to validateExamData
MaxQuestions == 2

\* longest asset list handed to attachImages on its own
MaxAssets == 2

\* most calls of attachImages on one question
MaxAttach == 2

\* longest text handed to normalizeLatex on its own
MaxLatexLen == 5

\* most runs of the w:p element handed to the extractor
MaxRuns == 2

-----------------------------------------------------------------------------
(* Characters and strings *)

Min(S) == CHOOSE x \in S : \A y \in S : x <= y
Max(S) == CHOOSE x \in S : \A y \in S : x >= y

\* JavaScript null (distinct from every text, the empty text included)
Null == <<"<null>">>

\* truthiness of a string-or-null value: null and "" are falsy
Truthy(v) == v # Null /\ v # <<>>

\* \s, restricted to the white space the extractor leaves in a paragraph
WS == {" ", "\n"}

\* \d
Digits == {"0", "1", "2", "3", "4", "5", "6", "7", "8", "9"}

LowerChars ==
    <<"a", "b", "c", "d", "e", "f", "g", "h", "i", "j", "k", "l", "m",
      "n", "o", "p", "q", "r", "s", "t", "u", "v", "w", "x", "y", "z",
      "aa", "as", "ar", "aws", "aaf", "dd", "eej", "if", "oj", "owf", "us">>

UpperChars ==
    <<"A", "B", "C", "D", "E", "F", "G", "H", "I", "J", "K", "L", "M",
      "N", "O", "P", "Q", "R", "S", "T", "U", "V", "W", "X", "Y", "Z",
      "AA", "AS", "AR", "AWS", "AAF", "DD", "EEJ", "IF", "OJ", "OWF", "US">>

\* the characters a text of the model is made of
Symbols == {" ", "\n", ".", ":", ")", "(", ",", ";", "*", "$", "&", "<", ">", "_",
            "'", "backtick", "\\", "[", "]", "{", "}", "=", "+", "-"}
Alphabet ==
    {LowerChars[k] : k \in 1..Len(LowerChars)} \cup {UpperChars[k] : k \in 1..Len(UpperChars)}
        \cup Digits \cup Symbols

\* String.prototype.toUpperCase and toLowerCase on one character, as tables
UpperOf ==
    [c \in Alphabet |->
        IF \E k \in 1..Len(LowerChars) : LowerChars[k] = c
        THEN UpperChars[CHOOSE k \in 1..Len(LowerChars) : LowerChars[k] = c]
        ELSE c]
LowerOf ==
    [c \in Alphabet |->
        IF \E k \in 1..Len(UpperChars) : UpperChars[k] = c
        THEN LowerChars[CHOOSE k \in 1..Len(UpperChars) : UpperChars[k] = c]
        ELSE c]

ToUpperChar(c) == UpperOf[c]
ToLowerChar(c) == LowerOf[c]

\* String.prototype.toUpperCase and toLowerCase
toUpperCase(s) == [k \in 1..Len(s) |-> UpperOf[s[k]]] \o <<>>
toLowerCase(s) == [k \in 1..Len(s) |-> LowerOf[s[k]]] \o <<>>

\* String.prototype.trim
trim(s) ==
    LET keep == {k \in 1..Len(s) : s[k] \notin WS}
    IN  IF keep = {} THEN <<>> ELSE SubSeq(s, Min(keep), Max(keep))

\* Array.prototype.join(' ')
RECURSIVE join(_, _)
join(parts, sep) ==
    IF parts = <<>> THEN <<>>
    ELSE IF Len(parts) = 1 THEN parts[1]
    ELSE parts[1] \o sep \o join(Tail(parts), sep)

\* String.prototype.includes
includes(s, sub) ==
    \E k \in 0..(Len(s) - Len(sub)) : SubSeq(s, k + 1, k + Len(sub)) = sub

\* parseInt on a run of decimal digits
DigitValue(c) ==
    CASE c = "0" -> 0 [] c = "1" -> 1 [] c = "2" -> 2 [] c = "3" -> 3
      [] c = "4" -> 4 [] c = "5" -> 5 [] c = "6" -> 6 [] c = "7" -> 7
      [] c = "8" -> 8 [] c = "9" -> 9

RECURSIVE parseInt(_)
parseInt(ds) ==
    IF ds = <<>> THEN 0
    ELSE 10 * parseInt(SubSeq(ds, 1, Len(ds) - 1)) + DigitValue(ds[Len(ds)])

-----------------------------------------------------------------------------
(* The documents of the model: paragraph records as the extractor yields    *)
(* them (trimmed text; never empty text with no image)                      *)

Para(text, rIds, underlined, segments) ==
    [text |-> text, imageRIds |-> rIds, hasUnderline |-> underlined,
     underlinedSegments |-> segments]

Plain(text) == Para(text, <<>>, FALSE, <<>>)

\* a paragraph whose only run is underlined
Underlined(text) == Para(text, <<>>, TRUE, <<text>>)

CAAU == <<"C", "aa", "u">>

ParaCau1x == Plain(CAAU \o <<" ", "1", ".", " ", "x">>)           \* "Cau 1. x"
ParaCau2 == Plain(CAAU \o <<" ", "2", ":">>)                      \* "Cau 2:"
ParaOptA == Plain(<<"A", ".", " ", "x">>)                         \* "A. x"
ParaOptBu == Underlined(<<"B", ".", " ", "y">>)                   \* "B. y", underlined
ParaNarU == Underlined(<<"c">>)                                   \* "c", underlined
ParaChon == Plain(<<"C", "h", "oj", "n", " ", "A">>)              \* "Chon A"
ParaLoiGiai == Plain(<<"L", "owf", "i", " ", "g", "i", "ar", "i">>)  \* "Loi giai"
ParaPhan2 == Plain(<<"P", "H", "AAF", "N", " ", "2">>)            \* "PHAN 2"
ParaPhan3 == Plain(<<"P", "H", "AAF", "N", " ", "3">>)            \* "PHAN 3"
ParaStmtAu == Underlined(<<"a", ")", " ", "x">>)                  \* "a) x", underlined
ParaStmtBu == Underlined(<<"b", ")", " ", "y">>)                  \* "b) y", underlined
ParaDapAn == Plain(<<"DD", "as", "p", " ", "as", "n", ":", " ", "4">>)  \* "Dap an: 4"
ParaHinh == Para(<<"H", "if", "n", "h", " ", "3">>, <<<<"r", "1">>>>, FALSE, <<>>)  \* "Hinh 3" + image
ParaCau3u == Para(CAAU \o <<" ", "3", ".", " ", "d">>, <<>>, TRUE, <<<<"d">>>>)  \* "Cau 3. d", the run "d" underlined
ParaCau2Phan5 == Plain(CAAU \o <<" ", "2", ".", " ", "p", "h", "aaf", "n", " ", "5">>)  \* "Cau 2. phan 5"
ParaCau100 == Plain(CAAU \o <<" ", "1", "0", "0", ".", " ", "x">>)  \* "Cau 100. x"
\* "Hinh 3" with the image r1 in two runs and, between them, an image whose
\* reference is the file name b.png
ParaHinhHai ==
    Para(<<"H", "if", "n", "h", " ", "3">>,
         <<<<"r", "1">>, <<"b", ".", "p", "n", "g">>, <<"r", "1">>>>, FALSE, <<>>)

\* the asset list of the Media Resolver: one asset with a relationship id,
\* one media entry the manifest does not name
Assets ==
    << [id |-> "img_0", filename |-> <<"a", ".", "p", "n", "g">>, rId |-> <<"r", "1">>],
       [id |-> "img_1", filename |-> <<"b", ".", "p", "n", "g">>, rId |-> <<>>] >>

\* a document is a sequence of paragraphs of one of these vocabularies
Vocabularies ==
    { {ParaCau1x, ParaCau2, ParaOptA, ParaOptBu, ParaNarU, ParaChon, ParaLoiGiai},
      {ParaPhan2, ParaPhan3, ParaCau1x, ParaStmtAu, ParaStmtBu, ParaDapAn},
      {ParaPhan2, ParaPhan3, ParaCau1x, ParaOptA, ParaLoiGiai, ParaHinh},
      {ParaPhan2, ParaCau3u, ParaCau2Phan5, ParaLoiGiai, ParaStmtAu, ParaNarU},
      {ParaPhan3, ParaCau1x, ParaCau100, ParaHinhHai} }

Paragraphs == UNION Vocabularies

\* the paragraph texts of the model
Texts == {p.text : p \in Paragraphs}

Range(f) == {f[k] : k \in DOMAIN f}

-----------------------------------------------------------------------------
(* Regular expressions.  A pattern is a sequence of items, matched greedily *)
(* left to right; every quantified item of the patterns below is followed   *)
(* by an item that cannot match what it consumed, so greedy matching is     *)
(* exactly the regular expression's match.                                  *)

Ch(cs)  == [k |-> "c", cs |-> cs]        \* one character of the class cs
WsStar  == [k |-> "ws*", cs |-> {}]      \* \s*
WsPlus  == [k |-> "ws+", cs |-> {}]      \* \s+
Digit   == [k |-> "c", cs |-> Digits]    \* \d
DigitPlus == [k |-> "d+", cs |-> {}]     \* \d+
Star(cs) == [k |-> "cs*", cs |-> cs]     \* [cs]*

\* a literal word
Lit(w) == [k \in 1..Len(w) |-> Ch({w[k]})]

\* first position at or after p whose character is outside S (Len+1 if none)
RunEnd(s, p, S) ==
    LET stops == {j \in p..Len(s) : s[j] \notin S}
    IN  IF stops = {} THEN Len(s) + 1 ELSE Min(stops)

\* a pattern under the /i flag: its classes canonicalized by toUpperCase
IgnoreCase(pat) ==
    [k \in 1..Len(pat) |-> [k |-> pat[k].k, cs |-> {ToUpperChar(c) : c \in pat[k].cs}]]

\* the position after item it matched at position p of s, 0 if it does not
\* match
MatchItem(it, s, p) ==
    CASE it.k = "c" -> IF p <= Len(s) /\ s[p] \in it.cs THEN p + 1 ELSE 0
      [] it.k = "ws*" -> RunEnd(s, p, WS)
      [] it.k = "cs*" -> RunEnd(s, p, it.cs)
      [] it.k = "ws+" -> IF RunEnd(s, p, WS) > p THEN RunEnd(s, p, WS) ELSE 0
      [] it.k = "d+"  -> IF RunEnd(s, p, Digits) > p THEN RunEnd(s, p, Digits) ELSE 0

\* the end positions of the items of pat matched from position p, <<>> when
\* the pattern does not match there
RECURSIVE RxRun(_, _, _, _, _)
RxRun(pat, k, s, p, acc) ==
    IF k > Len(pat) THEN acc
    ELSE LET j == MatchItem(pat[k], s, p)
         IN  IF j = 0 THEN <<>> ELSE RxRun(pat, k + 1, s, j, Append(acc, j))

\* the text the pattern is run on: under the /i flag (ci) the characters are
\* canonicalized by toUpperCase, as the classes of the pattern are
Canonical(s, ci) == IF ci THEN toUpperCase(s) ELSE s

RxAt(pat, s, p, ci) == RxRun(pat, 1, Canonical(s, ci), p, <<>>)

\* /^pat/.test(s)
RxPrefix(pat, s, ci) == RxAt(pat, s, 1, ci) # <<>>

\* the start positions of the matches of /pat/ in s
RxHits(pat, s, ci) ==
    LET t == Canonical(s, ci)
        first == pat[1]
    IN  {p \in 1..(Len(s) + 1) : MatchItem(first, t, p) # 0 /\ RxRun(pat, 1, t, p, <<>>) # <<>>}

\* /pat/.test(s)
RxTest(pat, s, ci) == RxHits(pat, s, ci) # {}

\* position of the leftmost match of /pat/ in s (0 if none)
RxSearch(pat, s, ci) ==
    IF RxHits(pat, s, ci) = {} THEN 0 ELSE Min(RxHits(pat, s, ci))

\* the text matched by (.*) from position p: up to the next line break
DotStar(s, p) ==
    SubSeq(s, p, RunEnd(s, p, {s[j] : j \in 1..Len(s)} \ {"\n"}) - 1)

-----------------------------------------------------------------------------
(* The patterns of the section parsers *)

\* /^C(?:aau|au)\s*(\d+)\s*[.:]\s*(.*)/i
questionPattern ==
    IgnoreCase(
    <<Ch({"C"}), Ch({"aa", "a"}), Ch({"u"}), WsStar, DigitPlus, WsStar,
      Ch({".", ":"}), WsStar>>)

\* /^\s*([A-D])\s*[.\)]\s*(.*)/i  (statementPattern of parsePart2 is the
\* same expression with [a-d] and the same /i flag)
optionPattern ==
    IgnoreCase(
    <<WsStar, Ch({"A", "B", "C", "D"}), WsStar, Ch({".", ")"}), WsStar>>)

\* /Ch(?:ojn|on)\s*([A-D])/i
answerPattern ==
    IgnoreCase(
    <<Ch({"C"}), Ch({"h"}), Ch({"oj", "o"}), Ch({"n"}), WsStar,
      Ch({"A", "B", "C", "D"})>>)

\* /^L(?:owfi|oi)\s*gi(?:ari|ai)/i
solutionPattern ==
    IgnoreCase(
    <<Ch({"L"}), Ch({"owf", "o"}), Ch({"i"}), WsStar, Ch({"g"}), Ch({"i"}),
      Ch({"ar", "a"}), Ch({"i"})>>)

\* /^H(?:ifnh|inh)\s*\d+/i
figurePattern ==
    IgnoreCase(
    <<Ch({"H"}), Ch({"if", "i"}), Ch({"n"}), Ch({"h"}), WsStar, DigitPlus>>)

\* /PHAAFN\s*\d/i and /PHAN\s*\d/i
partDigitPatterns ==
    {IgnoreCase(Lit(<<"P", "H", "AAF", "N">>) \o <<WsStar, Digit>>),
     IgnoreCase(Lit(<<"P", "H", "A", "N">>) \o <<WsStar, Digit>>)}

\* /Trawsc\s*nghieejm/i and /Trac\s*nghiem/i
tracNghiemPatterns ==
    {IgnoreCase(Lit(<<"T", "r", "aws", "c">>) \o <<WsStar>>
                    \o Lit(<<"n", "g", "h", "i", "eej", "m">>)),
     IgnoreCase(Lit(<<"T", "r", "a", "c">>) \o <<WsStar>>
                    \o Lit(<<"n", "g", "h", "i", "e", "m">>))}

\* the prefix of /^[*\s]*(?:DD|D)asp\s*(?:asn|an)[:\s]*(.+)/i before [:\s]*
part3AnswerPrefix ==
    IgnoreCase(
    <<Star({"*", " ", "\n"}), Ch({"DD", "D"}), Ch({"as"}), Ch({"p"}), WsStar,
      Ch({"as", "a"}), Ch({"n"})>>)

\* /^C(?:aau|au)\s*\d+/  (no /i flag)
part3QuestionGuard ==
    <<Ch({"C"}), Ch({"aa", "a"}), Ch({"u"}), WsStar, DigitPlus>>

\* text.match(questionPattern): [ok, num (group 1), rest (group 2)]
MatchQuestion(text) ==
    LET e == RxAt(questionPattern, text, 1, TRUE)
    IN  IF e = <<>> THEN [ok |-> FALSE, num |-> <<>>, rest |-> <<>>]
        ELSE [ok |-> TRUE, num |-> SubSeq(text, e[4], e[5] - 1),
              rest |-> DotStar(text, e[8])]

\* text.match(optionPattern): [ok, letter (group 1), rest (group 2)]
MatchOption(text) ==
    LET e == RxAt(optionPattern, text, 1, TRUE)
    IN  IF e = <<>> THEN [ok |-> FALSE, letter |-> <<>>, rest |-> <<>>]
        ELSE [ok |-> TRUE, letter |-> SubSeq(text, e[2] - 1, e[2] - 1),
              rest |-> DotStar(text, e[5])]

\* text.match(answerPattern): [ok, letter (group 1)] of the leftmost match
MatchChon(text) ==
    LET p == RxSearch(answerPattern, text, TRUE)
    IN  IF p = 0 THEN [ok |-> FALSE, letter |-> <<>>]
        ELSE LET e == RxAt(answerPattern, text, p, TRUE)
             IN  [ok |-> TRUE, letter |-> SubSeq(text, e[6] - 1, e[6] - 1)]

\* text.match(answerPattern) of parsePart3: [ok, ans (group 1)].  [:\s]* is
\* greedy and gives characters back until (.+) finds one that is no line break
MatchAnswer3(text) ==
    LET e == RxAt(part3AnswerPrefix, text, 1, TRUE)
    IN  IF e = <<>> THEN [ok |-> FALSE, ans |-> <<>>]
        ELSE LET from == e[7]
                 upto == RunEnd(text, from, {":", " ", "\n"})
                 starts == {q \in from..upto : q <= Len(text) /\ text[q] # "\n"}
             IN  IF starts = {} THEN [ok |-> FALSE, ans |-> <<>>]
                 ELSE [ok |-> TRUE, ans |-> DotStar(text, Max(starts))]

IsSolutionMarker(text) == RxPrefix(solutionPattern, text, TRUE)
IsFigure(text) == RxPrefix(figurePattern, text, TRUE)

\* the "Skip section headers" test of parsePart1WithUnderline
IsHeader1(text) ==
    \/ \E pat \in partDigitPatterns : RxTest(pat, text, TRUE)
    \/ \E pat \in tracNghiemPatterns : RxTest(pat, text, TRUE)

\* the header test of parsePart2 and parsePart3
IsHeader23(text) == \E pat \in partDigitPatterns : RxTest(pat, text, TRUE)

-----------------------------------------------------------------------------
(* detectSections *)

PHAAFN == Lit(<<"P", "H", "AAF", "N">>)
PHAN == Lit(<<"P", "H", "A", "N">>)
TRAWSC_NGHIEEJM ==
    Lit(<<"T", "R", "AWS", "C">>) \o <<WsStar>> \o Lit(<<"N", "G", "H", "I", "EEJ", "M">>)
TRAC_NGHIEM ==
    Lit(<<"T", "R", "A", "C">>) \o <<WsStar>> \o Lit(<<"N", "G", "H", "I", "E", "M">>)
DDUSNG_SAI == Lit(<<"DD", "US", "N", "G">>) \o <<WsStar>> \o Lit(<<"S", "A", "I">>)
DUNG_SAI == Lit(<<"D", "U", "N", "G">>) \o <<WsStar>> \o Lit(<<"S", "A", "I">>)
TRAR_LOWFI == Lit(<<"T", "R", "AR">>) \o <<WsStar>> \o Lit(<<"L", "OWF", "I">>)
TRA_LOI == Lit(<<"T", "R", "A">>) \o <<WsStar>> \o Lit(<<"L", "O", "I">>)
DotOrWs == Ch({".", " ", "\n"})

IgnoreCaseAll(patterns) == [k \in 1..Len(patterns) |-> IgnoreCase(patterns[k])]

\* all patterns carry the /i flag
part1Patterns ==
  IgnoreCaseAll(
    << PHAAFN \o <<WsStar, Ch({"1"})>>,
       PHAN \o <<WsStar, Ch({"1"})>>,
       PHAAFN \o <<WsPlus, Ch({"I"}), DotOrWs>>,
       Lit(<<"P", "h", "aaf", "n">>) \o <<WsStar, Ch({"1"})>>,
       Lit(<<"I", ".">>) \o <<WsStar>> \o TRAWSC_NGHIEEJM,
       Lit(<<"I", ".">>) \o <<WsStar>> \o TRAC_NGHIEM >>)

part2Patterns ==
  IgnoreCaseAll(
    << PHAAFN \o <<WsStar, Ch({"2"})>>,
       PHAN \o <<WsStar, Ch({"2"})>>,
       PHAAFN \o <<WsPlus, Ch({"I"}), Ch({"I"}), DotOrWs>>,
       Lit(<<"P", "h", "aaf", "n">>) \o <<WsStar, Ch({"2"})>>,
       Lit(<<"I", "I", ".">>) \o <<WsStar>> \o DDUSNG_SAI,
       Lit(<<"I", "I", ".">>) \o <<WsStar>> \o DUNG_SAI,
       DDUSNG_SAI,
       DUNG_SAI >>)

part3Patterns ==
  IgnoreCaseAll(
    << PHAAFN \o <<WsStar, Ch({"3"})>>,
       PHAN \o <<WsStar, Ch({"3"})>>,
       PHAAFN \o <<WsPlus, Ch({"I"}), Ch({"I"}), Ch({"I"}), DotOrWs>>,
       Lit(<<"P", "h", "aaf", "n">>) \o <<WsStar, Ch({"3"})>>,
       Lit(<<"I", "I", "I", ".">>) \o <<WsStar>> \o TRAR_LOWFI,
       Lit(<<"I", "I", "I", ".">>) \o <<WsStar>> \o TRA_LOI,
       TRAR_LOWFI \o <<WsStar>> \o Lit(<<"N", "G", "AWS", "N">>),
       TRA_LOI \o <<WsStar>> \o Lit(<<"N", "G", "A", "N">>) >>)

\* for (const pattern of patterns) if (pattern.test(text)) ...
AnyPattern(patterns, text) ==
    \E k \in 1..Len(patterns) : RxTest(patterns[k], text, TRUE)

\* which of the three pattern lists a text matches
HeaderTests(text) ==
    [part1 |-> AnyPattern(part1Patterns, text),
     part2 |-> AnyPattern(part2Patterns, text),
     part3 |-> AnyPattern(part3Patterns, text)]

\* HeaderTests, tabulated over the texts of the model
HeaderTable == [text \in Texts |-> HeaderTests(text)]

\* one iteration of the scan loop of detectSections, at index k
DetectStep(info, text, k) ==
    LET a == IF info.part1Start = -1 /\ HeaderTable[text].part1
             THEN [info EXCEPT !.part1Start = k] ELSE info
        b == IF a.part2Start = -1 /\ k > a.part1Start /\ HeaderTable[text].part2
             THEN [a EXCEPT !.part2Start = k] ELSE a
        c == IF b.part3Start = -1 /\ k > Max({b.part1Start, b.part2Start})
                /\ HeaderTable[text].part3
             THEN [b EXCEPT !.part3Start = k] ELSE b
    IN  c

RECURSIVE DetectScan(_, _, _)
DetectScan(paras, k, info) ==
    IF k >= Len(paras) THEN info
    ELSE DetectScan(paras, k + 1, DetectStep(info, paras[k + 1].text, k))

\* a slip: a missing section-3 header puts the start of section 3 at 0
DetectDefaults_Part3AtZero(info, n) ==
    [part1Start |-> IF info.part1Start = -1 THEN 0 ELSE info.part1Start,
     part2Start |-> IF info.part2Start = -1 THEN n ELSE info.part2Start,
     part3Start |-> IF info.part3Start = -1 THEN 0 ELSE info.part3Start]

\* a slip: a missing section-2 header puts the start of section 2 at 0
DetectDefaults_Part2AtZero(info, n) ==
    [part1Start |-> IF info.part1Start = -1 THEN 0 ELSE info.part1Start,
     part2Start |-> IF info.part2Start = -1 THEN 0 ELSE info.part2Start,
     part3Start |-> IF info.part3Start = -1 THEN n ELSE info.part3Start]

\* the defaults of the starts that the scan left at -1
DetectDefaults(info, n) ==
    [part1Start |-> IF info.part1Start = -1 THEN 0 ELSE info.part1Start,
     part2Start |-> IF info.part2Start = -1 THEN n ELSE info.part2Start,
     part3Start |-> IF info.part3Start = -1 THEN n ELSE info.part3Start]

detectSections(paras) ==
    DetectDefaults(
        DetectScan(paras, 0, [part1Start |-> -1, part2Start |-> -1, part3Start |-> -1]),
        Len(paras))

-----------------------------------------------------------------------------
(* attachImages *)

\* a slip: the file name is tried before the relationship id
ResolveImage_NameFirst(rId, imgs) ==
    LET byId == {k \in 1..Len(imgs) : imgs[k].rId = rId}
        byName == {k \in 1..Len(imgs) :
                      imgs[k].filename # <<>> /\ includes(rId, imgs[k].filename)}
    IN  IF byName # {} THEN <<imgs[Min(byName)]>>
        ELSE IF byId # {} THEN <<imgs[Min(byId)]>>
        ELSE <<>>

\* the asset a relationship id resolves to: <<img>>, or <<>> when none does
ResolveImage(rId, imgs) ==
    LET byId == {k \in 1..Len(imgs) : imgs[k].rId = rId}
        byName == {k \in 1..Len(imgs) :
                      imgs[k].filename # <<>> /\ includes(rId, imgs[k].filename)}
    IN  IF byId # {} THEN <<imgs[Min(byId)]>>
        ELSE IF byName # {} THEN <<imgs[Min(byName)]>>
        ELSE <<>>

\* a slip: the image is pushed without looking for it in q.images
RECURSIVE AttachTo_NoDedupe(_, _, _)
AttachTo_NoDedupe(qimages, rIds, imgs) ==
    IF rIds = <<>> THEN qimages
    ELSE LET img == ResolveImage(rIds[1], imgs)
             next == IF img # <<>> THEN Append(qimages, img[1]) ELSE qimages
         IN  AttachTo_NoDedupe(next, Tail(rIds), imgs)

RECURSIVE AttachTo(_, _, _)
AttachTo(qimages, rIds, imgs) ==
    IF rIds = <<>> THEN qimages
    ELSE LET img == ResolveImage(rIds[1], imgs)
             next == IF img # <<>> /\ ~(\E k \in 1..Len(qimages) : qimages[k].id = img[1].id)
                     THEN Append(qimages, img[1]) ELSE qimages
         IN  AttachTo(next, Tail(rIds), imgs)

\* a slip: the resolved images are not pushed
attachImages_Nothing(q, rIds, imgs) == q

attachImages(q, rIds, imgs) == [q EXCEPT !.images = AttachTo(q.images, rIds, imgs)]

-----------------------------------------------------------------------------
(* Helpers shared by the section parsers *)

\* the object literal assigned to currentQ; src and roles are history
\* variables: the index of the question-start paragraph, and for each later
\* paragraph the question consumed, the branch of the loop body that took it
NewParsedQuestion(qNum, part, type, idx) ==
    [number |-> qNum, globalIndex |-> 0, part |-> part, type |-> type,
     text |-> <<>>, options |-> <<>>, correctAnswer |-> Null,
     solution |-> <<>>, images |-> <<>>, src |-> idx, roles |-> <<>>]

\* history only: note that paragraph idx was taken by branch role
Note(l, idx, role, letter) ==
    [l EXCEPT !.currentQ[1].roles = Append(@, [idx |-> idx, role |-> role, letter |-> letter])]

\* contentBuffer.join(' ').trim()
JoinTrim(buffer) == trim(join(buffer, <<" ">>))

\* the position of a question among sorted ones: a.number - b.number, stable
RECURSIVE InsertByNumber(_, _)
InsertByNumber(sorted, q) ==
    IF sorted = <<>> THEN <<q>>
    ELSE IF sorted[Len(sorted)].number <= q.number THEN Append(sorted, q)
    ELSE Append(InsertByNumber(SubSeq(sorted, 1, Len(sorted) - 1), q), sorted[Len(sorted)])

\* a slip: the questions are returned in document order
SortByNumber_DocumentOrder(qs) == qs

\* questions.sort((a, b) => a.number - b.number)
RECURSIVE SortByNumber(_)
SortByNumber(qs) ==
    IF qs = <<>> THEN <<>>
    ELSE InsertByNumber(SortByNumber(SubSeq(qs, 1, Len(qs) - 1)), qs[Len(qs)])

-----------------------------------------------------------------------------
(* parsePart1WithUnderline *)

\* the locals declared before the loop
P1Locals ==
    [questions |-> <<>>, currentQ |-> <<>>, collectingContent |-> FALSE,
     contentBuffer |-> <<>>, inSolution |-> FALSE, solutionBuffer |-> <<>>,
     currentQuestionUnderlinedLetters |-> <<>>,
     currentOptionIndex |-> -1, startedOptions |-> FALSE]

\* /^[A-D]$/i.test(seg)
IsSingleLetter(seg) == Len(seg) = 1 /\ ToUpperChar(seg[1]) \in {"A", "B", "C", "D"}

\* a slip: the last single letter is taken, not the first
FindUnderlinedAnswer_Last(letters) ==
    LET hits == {k \in 1..Len(letters) : IsSingleLetter(letters[k])}
    IN  IF hits = {} THEN <<>> ELSE <<letters[Max(hits)]>>

\* currentQuestionUnderlinedLetters.find((l) => /^[A-D]$/i.test(l)):
\* <<l>> for the first such l, <<>> for undefined
FindUnderlinedAnswer(letters) ==
    LET hits == {k \in 1..Len(letters) : IsSingleLetter(letters[k])}
    IN  IF hits = {} THEN <<>> ELSE <<letters[Min(hits)]>>

\* the stem and the solution of the question being flushed
FlushText(l, q) ==
    LET q1 == IF Len(l.contentBuffer) > 0 /\ ~Truthy(q.text)
              THEN [q EXCEPT !.text = JoinTrim(l.contentBuffer)] ELSE q
    IN  IF Len(l.solutionBuffer) > 0
        THEN [q1 EXCEPT !.solution = JoinTrim(l.solutionBuffer)] ELSE q1

\* a slip: the underlined letter is stored in the case it was written in
P1InferAnswer_AsWritten(l, q) ==
    IF ~Truthy(q.correctAnswer) /\ Len(l.currentQuestionUnderlinedLetters) > 0
    THEN LET underlinedAnswer == FindUnderlinedAnswer(l.currentQuestionUnderlinedLetters)
         IN  IF underlinedAnswer # <<>>
             THEN [q EXCEPT !.correctAnswer = underlinedAnswer[1]]
             ELSE q
    ELSE q

\* a slip: the underline records are consulted whatever the answer so far
P1InferAnswer_Unguarded(l, q) ==
    LET underlinedAnswer == FindUnderlinedAnswer(l.currentQuestionUnderlinedLetters)
    IN  IF underlinedAnswer # <<>>
        THEN [q EXCEPT !.correctAnswer = toUpperCase(underlinedAnswer[1])]
        ELSE q

\* the answer of the question being flushed, from the underline records
P1InferAnswer(l, q) ==
    IF ~Truthy(q.correctAnswer) /\ Len(l.currentQuestionUnderlinedLetters) > 0
    THEN LET underlinedAnswer == FindUnderlinedAnswer(l.currentQuestionUnderlinedLetters)
         IN  IF underlinedAnswer # <<>>
             THEN [q EXCEPT !.correctAnswer = toUpperCase(underlinedAnswer[1])]
             ELSE q
    ELSE q

\* a slip: the question is pushed whatever its stem
PushIfText_Always(questions, q) == Append(questions, q)

\* if (currentQ.text) questions.push(currentQ)
PushIfText(questions, q) == IF Truthy(q.text) THEN Append(questions, q) ELSE questions

\* "flush prev" / "flush last": the questions list after it
P1Flush(l) ==
    IF l.currentQ = <<>> THEN l.questions
    ELSE PushIfText(l.questions, P1InferAnswer(l, FlushText(l, l.currentQ[1])))

\* the "New question" branch
P1Question(l, para, idx, imgs) ==
    LET m == MatchQuestion(para.text)
        restText == trim(m.rest)
        q == NewParsedQuestion(parseInt(m.num), 1, "multiple_choice", idx)
    IN  [questions |-> P1Flush(l),
         currentQ |-> <<IF Len(para.imageRIds) > 0
                        THEN attachImages(q, para.imageRIds, imgs) ELSE q>>,
         collectingContent |-> TRUE,
         inSolution |-> FALSE,
         contentBuffer |-> IF restText # <<>> THEN <<restText>> ELSE <<>>,
         solutionBuffer |-> <<>>,
         currentQuestionUnderlinedLetters |->
             IF para.hasUnderline THEN para.underlinedSegments ELSE <<>>,
         currentOptionIndex |-> -1,
         startedOptions |-> FALSE]

\* the "Loi giai" branch (shared by parsePart2, whose branch is the same code)
SolutionMarker(l) ==
    LET flushStem == Len(l.contentBuffer) > 0 /\ ~Truthy(l.currentQ[1].text)
    IN  [l EXCEPT !.currentQ[1].text = IF flushStem THEN JoinTrim(l.contentBuffer) ELSE @,
                  !.contentBuffer = IF flushStem THEN <<>> ELSE @,
                  !.collectingContent = FALSE,
                  !.inSolution = TRUE,
                  !.solutionBuffer = <<>>]

\* the "Chon X" branch
P1Chon(l, text) ==
    [l EXCEPT !.currentQ[1].correctAnswer = toUpperCase(MatchChon(text).letter)]

\* a slip: every option / statement line sets the stem from the buffer
OpenOptions_EveryLine(l) ==
    [l EXCEPT !.currentQ[1].text = JoinTrim(l.contentBuffer), !.contentBuffer = <<>>]

\* the stem set when the first option / statement arrives
OpenOptions(l) ==
    IF Len(l.currentQ[1].options) = 0 /\ Len(l.contentBuffer) > 0
    THEN [l EXCEPT !.currentQ[1].text = JoinTrim(l.contentBuffer), !.contentBuffer = <<>>]
    ELSE l

\* the "Option line" branch
P1Option(l, para) ==
    LET m == MatchOption(para.text)
        letter == toUpperCase(m.letter)
        optText == trim(m.rest)
        l1 == OpenOptions(l)
    IN  [l1 EXCEPT !.currentQ[1].options = Append(@, [letter |-> letter, text |-> optText]),
                   !.currentOptionIndex = Len(l1.currentQ[1].options),
                   !.startedOptions = TRUE,
                   !.currentQuestionUnderlinedLetters =
                       IF para.hasUnderline THEN Append(@, letter) ELSE @]

\* a slip: the continuation is joined without the space
AppendToOption_NoSpace(optText, text) == trim(optText \o text)

\* (option.text + ' ' + text).trim()
AppendToOption(optText, text) == trim(optText \o <<" ">> \o text)

\* a slip: the continuation records its underlined segments, as a stem
\* paragraph does, not the letter of the option it continues
P1Continuation_RecordsSegments(l, para, imgs) ==
    LET k == l.currentOptionIndex + 1
        l1 == IF ~IsFigure(para.text)
              THEN [l EXCEPT !.currentQ[1].options[k].text = AppendToOption(@, para.text),
                             !.currentQuestionUnderlinedLetters =
                                 IF para.hasUnderline
                                 THEN @ \o para.underlinedSegments ELSE @]
              ELSE l
    IN  IF Len(para.imageRIds) > 0
        THEN [l1 EXCEPT !.currentQ[1] = attachImages(@, para.imageRIds, imgs)]
        ELSE l1

\* a slip: the continuation of an option does not record its underline
P1Continuation_NoUnderline(l, para, imgs) ==
    LET k == l.currentOptionIndex + 1
        l1 == IF ~IsFigure(para.text)
              THEN [l EXCEPT !.currentQ[1].options[k].text = trim(@ \o <<" ">> \o para.text)]
              ELSE l
    IN  IF Len(para.imageRIds) > 0
        THEN [l1 EXCEPT !.currentQ[1] = [@ EXCEPT !.images = AttachTo(@, para.imageRIds, imgs)]]
        ELSE l1

\* the "Multiline option continuation" branch
P1Continuation(l, para, imgs) ==
    LET k == l.currentOptionIndex + 1
        l1 == IF ~IsFigure(para.text)
              THEN [l EXCEPT !.currentQ[1].options[k].text = AppendToOption(@, para.text),
                             !.currentQuestionUnderlinedLetters =
                                 IF para.hasUnderline
                                 THEN Append(@, l.currentQ[1].options[k].letter) ELSE @]
              ELSE l
    IN  IF Len(para.imageRIds) > 0
        THEN [l1 EXCEPT !.currentQ[1] = attachImages(@, para.imageRIds, imgs)]
        ELSE l1

\* the rest of the loop body: stem, solution, trailing attachImages
P1Collect(l, para, imgs) ==
    LET text == para.text
        attached == [l EXCEPT !.currentQ[1] = attachImages(@, para.imageRIds, imgs)]
        stem == l.collectingContent /\ text # <<>> /\ ~l.inSolution /\ ~l.startedOptions
    IN  IF stem /\ IsFigure(text)
        THEN IF Len(para.imageRIds) > 0 THEN attached ELSE l
        ELSE LET l1 == IF stem
                       THEN [l EXCEPT !.contentBuffer = Append(@, text),
                                      !.currentQuestionUnderlinedLetters =
                                          IF para.hasUnderline
                                          THEN @ \o para.underlinedSegments ELSE @]
                       ELSE l
                 l2 == IF l1.inSolution /\ text # <<>> /\ ~IsFigure(text)
                       THEN [l1 EXCEPT !.solutionBuffer = Append(@, text)]
                       ELSE l1
             IN  IF Len(para.imageRIds) > 0 /\ ~l2.inSolution
                 THEN [l2 EXCEPT !.currentQ[1] = attachImages(@, para.imageRIds, imgs)]
                 ELSE l2

\* history only: the branch of P1Collect that takes the paragraph
CollectRole(l, para) ==
    IF IsFigure(para.text) THEN "figure"
    ELSE IF l.collectingContent /\ para.text # <<>> /\ ~l.inSolution /\ ~l.startedOptions
    THEN "stem"
    ELSE IF l.inSolution /\ para.text # <<>> THEN "solution"
    ELSE "none"

\* one iteration of the loop, on paragraph idx
P1Iteration(l, para, idx, imgs) ==
    LET text == para.text
    IN  IF text = <<>> /\ Len(para.imageRIds) = 0 THEN l
        ELSE IF IsHeader1(text) THEN l
        ELSE IF MatchQuestion(text).ok THEN P1Question(l, para, idx, imgs)
        ELSE IF l.currentQ = <<>> THEN l
        ELSE IF IsSolutionMarker(text)
        THEN Note(SolutionMarker(l), idx, "solutionMarker", <<>>)
        ELSE IF MatchChon(text).ok
        THEN Note(P1Chon(l, text), idx, "answer", <<>>)
        ELSE IF MatchOption(text).ok /\ l.collectingContent
        THEN Note(P1Option(l, para), idx, "option", toUpperCase(MatchOption(text).letter))
        ELSE IF l.collectingContent /\ l.startedOptions /\ l.currentOptionIndex >= 0
                /\ text # <<>> /\ ~l.inSolution
        THEN Note(P1Continuation(l, para, imgs), idx,
                  IF IsFigure(text) THEN "figure" ELSE "continuation",
                  l.currentQ[1].options[l.currentOptionIndex + 1].letter)
        ELSE Note(P1Collect(l, para, imgs), idx, CollectRole(l, para), <<>>)

\* after the loop: flush last, sort, return
P1Result(l) == SortByNumber(P1Flush(l))

-----------------------------------------------------------------------------
(* parsePart2 *)

P2Locals ==
    [questions |-> <<>>, currentQ |-> <<>>, collectingContent |-> FALSE,
     contentBuffer |-> <<>>, inSolution |-> FALSE, solutionBuffer |-> <<>>,
     currentQuestionTrueStatements |-> <<>>,
     currentStmtIndex |-> -1, startedStatements |-> FALSE]

\* Set.prototype.add; the Set is kept as its elements in insertion order
SetAdd(set, x) ==
    IF \E k \in 1..Len(set) : set[k] = x THEN set ELSE Append(set, x)

\* the UTF-16 code unit order of the letters a statement can carry
CodeOrder == <<"A", "B", "C", "D", "a", "b", "c", "d">>
CodeUnit(c) == CHOOSE k \in 1..Len(CodeOrder) : CodeOrder[k] = c

RECURSIVE InsertLetter(_, _)
InsertLetter(sorted, x) ==
    IF sorted = <<>> THEN <<x>>
    ELSE IF CodeUnit(sorted[Len(sorted)][1]) <= CodeUnit(x[1]) THEN Append(sorted, x)
    ELSE Append(InsertLetter(SubSeq(sorted, 1, Len(sorted) - 1), x), sorted[Len(sorted)])

\* a slip: the letters are joined in the order they were recorded
SortLetters_Unsorted(xs) == xs

\* Array.from(set).sort() on one-letter strings
RECURSIVE SortLetters(_)
SortLetters(xs) ==
    IF xs = <<>> THEN <<>>
    ELSE InsertLetter(SortLetters(SubSeq(xs, 1, Len(xs) - 1)), xs[Len(xs)])

\* a slip: only the first of the sorted letters is kept, as in section 1
P2InferAnswer_FirstOnly(l, q) ==
    IF ~Truthy(q.correctAnswer) /\ Len(l.currentQuestionTrueStatements) > 0
    THEN [q EXCEPT !.correctAnswer = SortLetters(l.currentQuestionTrueStatements)[1]]
    ELSE q

\* the answer of the question being flushed, from the underlined statements
P2InferAnswer(l, q) ==
    IF ~Truthy(q.correctAnswer) /\ Len(l.currentQuestionTrueStatements) > 0
    THEN [q EXCEPT !.correctAnswer = join(SortLetters(l.currentQuestionTrueStatements), <<",">>)]
    ELSE q

P2Flush(l) ==
    IF l.currentQ = <<>> THEN l.questions
    ELSE PushIfText(l.questions, P2InferAnswer(l, FlushText(l, l.currentQ[1])))

P2Question(l, para, idx, imgs) ==
    LET m == MatchQuestion(para.text)
        restText == trim(m.rest)
        q == NewParsedQuestion(parseInt(m.num), 2, "true_false", idx)
    IN  [questions |-> P2Flush(l),
         currentQ |-> <<IF Len(para.imageRIds) > 0
                        THEN attachImages(q, para.imageRIds, imgs) ELSE q>>,
         collectingContent |-> TRUE,
         inSolution |-> FALSE,
         contentBuffer |-> IF restText # <<>> THEN <<restText>> ELSE <<>>,
         solutionBuffer |-> <<>>,
         currentQuestionTrueStatements |-> <<>>,
         currentStmtIndex |-> -1,
         startedStatements |-> FALSE]

\* the statement branch
P2Statement(l, para) ==
    LET m == MatchOption(para.text)
        letter == toLowerCase(m.letter)
        stmtText == trim(m.rest)
        l1 == OpenOptions(l)
    IN  [l1 EXCEPT !.currentQ[1].options = Append(@, [letter |-> letter, text |-> stmtText]),
                   !.currentStmtIndex = Len(l1.currentQ[1].options),
                   !.startedStatements = TRUE,
                   !.currentQuestionTrueStatements =
                       IF para.hasUnderline THEN SetAdd(@, letter) ELSE @]

\* a slip: the continuation branch appends the text of a figure paragraph too
P2Continuation_AppendFigure(l, para, imgs) ==
    LET k == l.currentStmtIndex + 1
        l1 == [l EXCEPT !.currentQ[1].options[k].text = trim(@ \o <<" ">> \o para.text),
                        !.currentQuestionTrueStatements =
                            IF para.hasUnderline
                            THEN SetAdd(@, toLowerCase(l.currentQ[1].options[k].letter))
                            ELSE @]
    IN  IF Len(para.imageRIds) > 0
        THEN [l1 EXCEPT !.currentQ[1] = attachImages(@, para.imageRIds, imgs)]
        ELSE l1

\* the "Multiline statement continuation" branch
P2Continuation(l, para, imgs) ==
    LET k == l.currentStmtIndex + 1
        l1 == IF ~IsFigure(para.text)
              THEN [l EXCEPT !.currentQ[1].options[k].text = AppendToOption(@, para.text),
                             !.currentQuestionTrueStatements =
                                 IF para.hasUnderline
                                 THEN SetAdd(@, toLowerCase(l.currentQ[1].options[k].letter))
                                 ELSE @]
              ELSE l
    IN  IF Len(para.imageRIds) > 0
        THEN [l1 EXCEPT !.currentQ[1] = attachImages(@, para.imageRIds, imgs)]
        ELSE l1

\* the rest of the loop body: stem, solution, trailing attachImages
P2Collect(l, para, imgs) ==
    LET text == para.text
        stem == l.collectingContent /\ text # <<>> /\ ~l.inSolution /\ ~l.startedStatements
    IN  IF stem /\ IsFigure(text)
        THEN IF Len(para.imageRIds) > 0
             THEN [l EXCEPT !.currentQ[1] = attachImages(@, para.imageRIds, imgs)]
             ELSE l
        ELSE LET l1 == IF stem THEN [l EXCEPT !.contentBuffer = Append(@, text)] ELSE l
                 l2 == IF l1.inSolution /\ text # <<>> /\ ~IsFigure(text)
                       THEN [l1 EXCEPT !.solutionBuffer = Append(@, text)]
                       ELSE l1
             IN  IF Len(para.imageRIds) > 0 /\ ~l2.inSolution
                 THEN [l2 EXCEPT !.currentQ[1] = attachImages(@, para.imageRIds, imgs)]
                 ELSE l2

P2CollectRole(l, para) ==
    IF IsFigure(para.text) THEN "figure"
    ELSE IF l.collectingContent /\ para.text # <<>> /\ ~l.inSolution /\ ~l.startedStatements
    THEN "stem"
    ELSE IF l.inSolution /\ para.text # <<>> THEN "solution"
    ELSE "none"

P2Iteration(l, para, idx, imgs) ==
    LET text == para.text
    IN  IF text = <<>> /\ Len(para.imageRIds) = 0 THEN l
        ELSE IF IsHeader23(text) THEN l
        ELSE IF MatchQuestion(text).ok THEN P2Question(l, para, idx, imgs)
        ELSE IF l.currentQ = <<>> THEN l
        ELSE IF IsSolutionMarker(text)
        THEN Note(SolutionMarker(l), idx, "solutionMarker", <<>>)
        ELSE IF MatchOption(text).ok /\ l.collectingContent
        THEN Note(P2Statement(l, para), idx, "option", toLowerCase(MatchOption(text).letter))
        ELSE IF l.collectingContent /\ l.startedStatements /\ l.currentStmtIndex >= 0
                /\ text # <<>> /\ ~l.inSolution
        THEN Note(P2Continuation(l, para, imgs), idx,
                  IF IsFigure(text) THEN "figure" ELSE "continuation",
                  l.currentQ[1].options[l.currentStmtIndex + 1].letter)
        ELSE Note(P2Collect(l, para, imgs), idx, P2CollectRole(l, para), <<>>)

P2Result(l) == SortByNumber(P2Flush(l))

-----------------------------------------------------------------------------
(* parsePart3 *)

P3Locals ==
    [questions |-> <<>>, currentQ |-> <<>>, collectingContent |-> FALSE,
     contentBuffer |-> <<>>, solutionBuffer |-> <<>>]

\* the stem (overwritten whenever the buffer is not empty) and the solution
P3FlushText(l, q) ==
    LET q1 == IF Len(l.contentBuffer) > 0
              THEN [q EXCEPT !.text = JoinTrim(l.contentBuffer)] ELSE q
    IN  IF Len(l.solutionBuffer) > 0
        THEN [q1 EXCEPT !.solution = JoinTrim(l.solutionBuffer)] ELSE q1

P3Flush(l) ==
    IF l.currentQ = <<>> THEN l.questions
    ELSE PushIfText(l.questions, P3FlushText(l, l.currentQ[1]))

P3Question(l, para, idx, imgs) ==
    LET m == MatchQuestion(para.text)
        restText == trim(m.rest)
        q == NewParsedQuestion(parseInt(m.num), 3, "short_answer", idx)
    IN  [questions |-> P3Flush(l),
         currentQ |-> <<IF Len(para.imageRIds) > 0
                        THEN attachImages(q, para.imageRIds, imgs) ELSE q>>,
         collectingContent |-> TRUE,
         contentBuffer |-> IF restText # <<>> THEN <<restText>> ELSE <<>>,
         solutionBuffer |-> <<>>]

\* the "Loi giai" branch of parsePart3
P3SolutionMarker(l) ==
    LET flushStem == Len(l.contentBuffer) > 0
    IN  [l EXCEPT !.currentQ[1].text = IF flushStem THEN JoinTrim(l.contentBuffer) ELSE @,
                  !.contentBuffer = IF flushStem THEN <<>> ELSE @,
                  !.collectingContent = FALSE,
                  !.solutionBuffer = <<>>]

\* the answer-line branch
P3Answer(l, text) ==
    [l EXCEPT !.currentQ[1].correctAnswer = trim(MatchAnswer3(text).ans)]

\* a slip: as in section 1, an underlined paragraph of the stem or the
\* solution gives the answer
P3Collect_AnswerFromUnderline(l, para, imgs) ==
    LET text == para.text
        attached == [l EXCEPT !.currentQ[1] = attachImages(@, para.imageRIds, imgs)]
    IN  IF l.collectingContent /\ text # <<>> /\ IsFigure(text)
        THEN IF Len(para.imageRIds) > 0 THEN attached ELSE l
        ELSE LET l1 == IF l.collectingContent /\ text # <<>>
                       THEN [l EXCEPT !.contentBuffer = Append(@, text)] ELSE l
                 l2 == IF l1.collectingContent = FALSE /\ text # <<>>
                          /\ ~RxPrefix(part3QuestionGuard, text, FALSE)
                          /\ ~IsFigure(text) /\ ~MatchAnswer3(text).ok
                       THEN [l1 EXCEPT !.solutionBuffer = Append(@, text)]
                       ELSE l1
                 l3 == IF para.hasUnderline /\ Len(para.underlinedSegments) > 0
                       THEN [l2 EXCEPT !.currentQ[1].correctAnswer = para.underlinedSegments[1]]
                       ELSE l2
             IN  IF Len(para.imageRIds) > 0
                 THEN [l3 EXCEPT !.currentQ[1] = attachImages(@, para.imageRIds, imgs)]
                 ELSE l3

\* the rest of the loop body: stem, solution, trailing attachImages
P3Collect(l, para, imgs) ==
    LET text == para.text
        attached == [l EXCEPT !.currentQ[1] = attachImages(@, para.imageRIds, imgs)]
    IN  IF l.collectingContent /\ text # <<>> /\ IsFigure(text)
        THEN IF Len(para.imageRIds) > 0 THEN attached ELSE l
        ELSE LET l1 == IF l.collectingContent /\ text # <<>>
                       THEN [l EXCEPT !.contentBuffer = Append(@, text)] ELSE l
                 l2 == IF l1.collectingContent = FALSE /\ text # <<>>
                          /\ ~RxPrefix(part3QuestionGuard, text, FALSE)
                          /\ ~IsFigure(text) /\ ~MatchAnswer3(text).ok
                       THEN [l1 EXCEPT !.solutionBuffer = Append(@, text)]
                       ELSE l1
             IN  IF Len(para.imageRIds) > 0
                 THEN [l2 EXCEPT !.currentQ[1] = attachImages(@, para.imageRIds, imgs)]
                 ELSE l2

P3CollectRole(l, para) ==
    IF IsFigure(para.text) THEN "figure"
    ELSE IF l.collectingContent /\ para.text # <<>> THEN "stem"
    ELSE IF ~l.collectingContent /\ para.text # <<>>
            /\ ~RxPrefix(part3QuestionGuard, para.text, FALSE) THEN "solution"
    ELSE "none"

P3Iteration(l, para, idx, imgs) ==
    LET text == para.text
    IN  IF text = <<>> /\ Len(para.imageRIds) = 0 THEN l
        ELSE IF IsHeader23(text) THEN l
        ELSE IF MatchQuestion(text).ok THEN P3Question(l, para, idx, imgs)
        ELSE IF l.currentQ = <<>> THEN l
        ELSE IF IsSolutionMarker(text)
        THEN Note(P3SolutionMarker(l), idx, "solutionMarker", <<>>)
        ELSE IF MatchAnswer3(text).ok
        THEN Note(P3Answer(l, text), idx, "answer", <<>>)
        ELSE Note(P3Collect(l, para, imgs), idx, P3CollectRole(l, para), <<>>)

P3Result(l) == SortByNumber(P3Flush(l))

\* the loop of parsePart3 from index k to endIdx
RECURSIVE P3Loop(_, _, _, _, _)
P3Loop(l, paras, k, endIdx, imgs) ==
    IF k >= endIdx THEN l
    ELSE P3Loop(P3Iteration(l, paras[k + 1], k, imgs), paras, k + 1, endIdx, imgs)

\* parsePart3 as a function of its arguments
parsePart3(paras, startIdx, endIdx, imgs) ==
    IF startIdx < 0 \/ startIdx >= Len(paras) THEN <<>>
    ELSE P3Result(P3Loop(P3Locals, paras, startIdx, endIdx, imgs))

-----------------------------------------------------------------------------
(* escapeHtmlPreserveLaTeX *)

RECURSIVE Decimal(_)
Decimal(n) ==
    LET d == <<"0", "1", "2", "3", "4", "5", "6", "7", "8", "9">>
    IN  IF n < 10 THEN <<d[n + 1]>> ELSE Decimal(n \div 10) \o <<d[(n % 10) + 1]>>

\* `__LATEX_BLOCK_${n}__`
Placeholder(n) ==
    <<"_", "_", "L", "A", "T", "E", "X", "_", "B", "L", "O", "C", "K", "_">>
        \o Decimal(n) \o <<"_", "_">>

\* s has "$$" at position p
DollarsAt(s, p) == p + 1 <= Len(s) /\ s[p] = "$" /\ s[p + 1] = "$"

\* s has a "$" at position p that no "$" follows:  \$(?!\$)
LoneDollarAt(s, p) == p <= Len(s) /\ s[p] = "$" /\ ~(p + 1 <= Len(s) /\ s[p + 1] = "$")

\* text.replace(/\$\$([\s\S]*?)\$\$/g, protectLatex): [text, blocks]
RECURSIVE ProtectBlocks(_, _)
ProtectBlocks(s, blocks) ==
    LET closes(p) == {q \in (p + 2)..Len(s) : DollarsAt(s, q)}
        opens == {p \in 1..Len(s) : DollarsAt(s, p) /\ closes(p) # {}}
    IN  IF opens = {} THEN [text |-> s, blocks |-> blocks]
        ELSE LET p == Min(opens)
                 q == Min(closes(p))
                 r == ProtectBlocks(SubSeq(s, q + 2, Len(s)),
                                    Append(blocks, SubSeq(s, p, q + 1)))
             IN  [text |-> SubSeq(s, 1, p - 1) \o Placeholder(Len(blocks)) \o r.text,
                  blocks |-> r.blocks]

\* text.replace(/\$(?!\$)([\s\S]*?)\$(?!\$)/g, protectLatex): [text, blocks]
RECURSIVE ProtectInline(_, _)
ProtectInline(s, blocks) ==
    LET closes(p) == {q \in (p + 1)..Len(s) : LoneDollarAt(s, q)}
        opens == {p \in 1..Len(s) : LoneDollarAt(s, p) /\ closes(p) # {}}
    IN  IF opens = {} THEN [text |-> s, blocks |-> blocks]
        ELSE LET p == Min(opens)
                 q == Min(closes(p))
                 r == ProtectInline(SubSeq(s, q + 1, Len(s)),
                                    Append(blocks, SubSeq(s, p, q)))
             IN  [text |-> SubSeq(s, 1, p - 1) \o Placeholder(Len(blocks)) \o r.text,
                  blocks |-> r.blocks]

\* text.replace(/c/g, entity) for a one-character pattern c
RECURSIVE ReplaceAllChar(_, _, _)
ReplaceAllChar(s, c, entity) ==
    IF s = <<>> THEN <<>>
    ELSE (IF s[1] = c THEN entity ELSE <<s[1]>>) \o ReplaceAllChar(Tail(s), c, entity)

EscapeHtml(s) ==
    ReplaceAllChar(
        ReplaceAllChar(
            ReplaceAllChar(s, "&", <<"&", "a", "m", "p", ";">>),
            "<", <<"&", "l", "t", ";">>),
        ">", <<"&", "g", "t", ";">>)

\* GetSubstitution of String.prototype.replace for a string pattern (no
\* capture groups): $$ is "$", $& the match, $` the text before it, $' the
\* text after it; any other "$" stands for itself.  The back quote character
\* is named "backtick".
RECURSIVE GetSubstitution(_, _, _, _)
GetSubstitution(replacement, matched, before, after) ==
    IF replacement = <<>> THEN <<>>
    ELSE IF replacement[1] = "$" /\ Len(replacement) >= 2
            /\ replacement[2] \in {"$", "&", "backtick", "'"}
    THEN (CASE replacement[2] = "$" -> <<"$">>
            [] replacement[2] = "&" -> matched
            [] replacement[2] = "backtick" -> before
            [] replacement[2] = "'" -> after)
         \o GetSubstitution(SubSeq(replacement, 3, Len(replacement)), matched, before, after)
    ELSE <<replacement[1]>> \o GetSubstitution(Tail(replacement), matched, before, after)

\* text.replace(pattern, replacement) for a string pattern: first occurrence
ReplaceFirst(s, pattern, replacement) ==
    LET hits == {k \in 0..(Len(s) - Len(pattern)) :
                    SubSeq(s, k + 1, k + Len(pattern)) = pattern}
    IN  IF hits = {} THEN s
        ELSE LET k == Min(hits)
                 before == SubSeq(s, 1, k)
                 after == SubSeq(s, k + Len(pattern) + 1, Len(s))
             IN  before \o GetSubstitution(replacement, pattern, before, after) \o after

\* for (let i = 0; i < latexBlocks.length; i++) text = text.replace(...)
RECURSIVE RestoreBlocks(_, _, _)
RestoreBlocks(s, blocks, k) ==
    IF k >= Len(blocks) THEN s
    ELSE RestoreBlocks(ReplaceFirst(s, Placeholder(k), blocks[k + 1]), blocks, k + 1)

escapeHtmlPreserveLaTeX(text) ==
    IF text = <<>> THEN <<>>
    ELSE LET a == ProtectBlocks(text, <<>>)
             b == ProtectInline(a.text, a.blocks)
         IN  RestoreBlocks(EscapeHtml(b.text), b.blocks, 0)

-----------------------------------------------------------------------------
(* convertToQuestion and the assembly in parseAllQuestions *)

getPartName(part) ==
    CASE part = 1 -> "Trac nghiem nhieu lua chon"
      [] part = 2 -> "Trac nghiem dung sai"
      [] part = 3 -> "Trac nghiem tra loi ngan"
      [] OTHER -> ""

\* a slip: the section index is left out of the encoding
UniqueNumber_NoSection(pq) == 100 + pq.number

\* const uniqueNumber = pq.part * 100 + pq.number
UniqueNumber(pq) == pq.part * 100 + pq.number

\* src and roles are carried along as history
convertToQuestion(pq, globalIndex) ==
    [number |-> UniqueNumber(pq),
     text |-> escapeHtmlPreserveLaTeX(pq.text),
     type |-> pq.type,
     options |-> [k \in 1..Len(pq.options) |->
                     [letter |-> pq.options[k].letter,
                      text |-> escapeHtmlPreserveLaTeX(pq.options[k].text)]],
     correctAnswer |-> pq.correctAnswer,
     part |-> <<"P", "H", "AAF", "N", " ">> \o Decimal(pq.part),
     images |-> pq.images,
     solution |-> pq.solution,
     section |-> [letter |-> Decimal(pq.part), name |-> getPartName(pq.part),
                  points |-> ""],
     src |-> pq.src, roles |-> pq.roles]

\* const q = convertToQuestion(pq, globalIndex++) over one section's list
ConvertAll(pqs, firstIndex) ==
    [k \in 1..Len(pqs) |-> convertToQuestion(pqs[k], firstIndex + k - 1)]

\* if (q.correctAnswer) examData.answers[q.number] = q.correctAnswer, in order
RECURSIVE AddAnswers(_, _)
AddAnswers(answers, qs) ==
    IF qs = <<>> THEN answers
    ELSE AddAnswers(
            IF Truthy(qs[1].correctAnswer)
            THEN (qs[1].number :> qs[1].correctAnswer) @@ answers
            ELSE answers,
            Tail(qs))

\* the object pushed to examData.sections; name stands for the section's
\* title, and the description, a fixed text per section, is left out
Section(name, qs, sectionType) ==
    [name |-> name, points |-> "", questions |-> qs, sectionType |-> sectionType]

\* the "PHAN 1" block
AssemblePart1(ed, pqs) ==
    IF Len(pqs) > 0
    THEN LET qs == ConvertAll(pqs, Len(ed.questions))
         IN  [ed EXCEPT !.questions = @ \o qs,
                        !.answers = AddAnswers(@, qs),
                        !.sections = Append(@, Section("PHAN 1", qs, "multiple_choice"))]
    ELSE ed

\* the "PHAN 2" block: it writes no answer
AssemblePart2(ed, pqs) ==
    IF Len(pqs) > 0
    THEN LET qs == ConvertAll(pqs, Len(ed.questions))
         IN  [ed EXCEPT !.questions = @ \o qs,
                        !.sections = Append(@, Section("PHAN 2", qs, "true_false"))]
    ELSE ed

\* the "PHAN 3" block
AssemblePart3(ed, pqs) ==
    IF Len(pqs) > 0
    THEN LET qs == ConvertAll(pqs, Len(ed.questions))
         IN  [ed EXCEPT !.questions = @ \o qs,
                        !.answers = AddAnswers(@, qs),
                        !.sections = Append(@, Section("PHAN 3", qs, "short_answer"))]
    ELSE ed

\* the ExamData literal parseAllQuestions starts from
EmptyExamData ==
    [title |-> "", timeLimit |-> 90, sections |-> <<>>, questions |-> <<>>,
     answers |-> <<>>, images |-> <<>>]

-----------------------------------------------------------------------------
(* validateExamData *)

\* 'Khong tim thay cau hoi nao trong file'
NoQuestionsError ==
    <<"K", "h", "oo", "n", "g", " ", "t", "if", "m", " ", "t", "h", "aas", "y", " ",
      "c", "aa", "u", " ", "h", "or", "i", " ", "n", "af", "o", " ",
      "t", "r", "o", "n", "g", " ", "f", "i", "l", "e">>

\* `Cau ${q.number}: Thieu noi dung cau hoi`
MissingStemError(q) ==
    <<"C", "aa", "u", " ">> \o Decimal(q.number)
        \o <<":", " ", "T", "h", "i", "ees", "u", " ", "n", "ooj", "i", " ",
             "d", "u", "n", "g", " ", "c", "aa", "u", " ", "h", "or", "i">>

\* a slip: the stem is tested without trimming it
IsMissingStem_NoTrim(q) == ~Truthy(q.text)

\* !q.text || !q.text.trim()
IsMissingStem(q) == ~Truthy(q.text) \/ ~Truthy(trim(q.text))

\* the errors pushed by data.questions.forEach; the counters of the loop are
\* only written to the console
RECURSIVE StemErrors(_)
StemErrors(qs) ==
    IF qs = <<>> THEN <<>>
    ELSE (IF IsMissingStem(qs[1]) THEN <<MissingStemError(qs[1])>> ELSE <<>>)
             \o StemErrors(Tail(qs))

validateExamData(d) ==
    LET errors == (IF Len(d.questions) = 0 THEN <<NoQuestionsError>> ELSE <<>>)
                      \o StemErrors(d.questions)
    IN  [valid |-> Len(errors) = 0, errors |-> errors]

-----------------------------------------------------------------------------
(* The state machine: parseAllQuestions over a document *)

InitParser ==
    /\ paragraphs = <<>>
    /\ images = Assets
    /\ pc = "extract"
    /\ sectionInfo = [part1Start |-> -1, part2Start |-> -1, part3Start |-> -1]
    /\ i = 0
    /\ loc = P1Locals
    /\ part1Questions = <<>>
    /\ part2Questions = <<>>
    /\ part3Questions = <<>>
    /\ examData = EmptyExamData

\* no text has been handed to the sanitizer
InitSanitizer == rawText = <<>> /\ escaped = <<>>

\* a path of the container: its folders and, after the last "/", its name
Path(dirs, name) == [dirs |-> dirs, name |-> name]

\* an entry of zip.files; readable: async() on it resolves
Entry(dirs, name, dir, readable) ==
    [path |-> Path(dirs, name), dir |-> dir, readable |-> readable]

APng == <<"a", ".", "p", "n", "g">>
BPng == <<"b", ".", "p", "n", "g">>
StylesXml == <<"s", ".", "x", "m", "l">>

\* the entries the model's containers are made of: two pictures, one of
\* them also in a damaged copy, the folder word/media/ and a part that is no
\* picture
Entries ==
    {Entry(<<"word", "media">>, APng, FALSE, TRUE),
     Entry(<<"word", "media">>, APng, FALSE, FALSE),
     Entry(<<"word", "media">>, BPng, FALSE, TRUE),
     Entry(<<"word", "media">>, <<>>, TRUE, TRUE),
     Entry(<<"word">>, StylesXml, FALSE, TRUE)}

\* the entry lists without a repeated path, up to n entries
RECURSIVE EntryLists(_)
EntryLists(n) ==
    IF n = 0 THEN {<<>>}
    ELSE LET shorter == EntryLists(n - 1)
         IN  shorter \cup
             {Append(l, e) : <<l, e>> \in
                 {x \in shorter \X Entries :
                     \A k \in 1..Len(x[1]) : x[1][k].path # x[2].path}}

\* a Relationship element of the manifest
Relationship(rId, dirs, name) == [rId |-> rId, target |-> Path(dirs, name)]

\* word/_rels/document.xml.rels: absent, unreadable, or its relationships
Manifests ==
    {[state |-> "absent", content |-> <<>>],
     [state |-> "unreadable", content |-> <<>>],
     [state |-> "read", content |-> <<>>],
     [state |-> "read", content |-> <<Relationship(<<"r", "2">>, <<>>, StylesXml)>>],
     [state |-> "read", content |-> <<Relationship(<<"r", "2">>, <<>>, StylesXml),
                                      Relationship(<<"r", "1">>, <<"media">>, APng)>>]}

\* the files parseWordToExam is called with; the main document part, when
\* present, holds no paragraph
Files ==
    [name : {<<"d", "e", ".", "D", "o", "c", "x">>},
     opens : BOOLEAN,
     rels : Manifests,
     document : {"absent", "unreadable", "empty", "present"},
     files : EntryLists(MaxEntries)]

\* the locals of a call of parseWordToExam that has not started
NotCalled ==
    [pc |-> "start", images |-> <<>>, imageRelMap |-> <<>>, k |-> 0,
     warnings |-> 0, outcome |-> "pending", value |-> <<>>]

\* no file has been handed to parseWordToExam
InitContainer ==
    /\ file = [name |-> <<>>, opens |-> FALSE,
               rels |-> [state |-> "absent", content |-> <<>>],
               document |-> "absent", files |-> <<>>]
    /\ call = NotCalled

InitValidator == data = EmptyExamData /\ validation = <<>>

\* attachImages not yet called: no asset, a question without images
InitAttach == attaching = [images |-> <<>>, q |-> <<>>, rIds |-> <<>>, n |-> 0]

\* normalizeLatex not yet called: out is <<>>, and <<result>> after the call
InitNormalizer == latex = [text |-> <<>>, out |-> <<>>]

\* the w:p element has no run yet and the extractor has not gone over it
InitExtractor == extraction = [runs |-> <<>>, out |-> <<>>, done |-> FALSE]

\* the callers of the two interleaved calls of parseWordToExam
Callers == {"A", "B"}

\* the locals of one call: those of parseWordToExam and extractImages, the
\* reads it has issued that have not settled, and the read its continuation
\* waits for
NotStarted ==
    [file |-> [name |-> <<>>, opens |-> FALSE,
               rels |-> [state |-> "absent", content |-> <<>>],
               document |-> "absent", files |-> <<>>],
     pc |-> "start", images |-> <<>>, imageRelMap |-> <<>>, k |-> 0,
     warnings |-> 0, outcome |-> "pending", value |-> <<>>,
     pending |-> {}, awaiting |-> <<>>]

\* no caller has called parseWordToExam
InitCalls == calls = [c \in Callers |-> NotStarted]

Init ==
    /\ InitParser /\ InitSanitizer /\ InitContainer /\ InitValidator
    /\ InitAttach /\ InitNormalizer /\ InitExtractor /\ InitCalls


\* the extractor yields one more paragraph record
AddParagraph(p) ==
    /\ pc = "extract"
    /\ Len(paragraphs) < MaxParagraphs
    /\ \E V \in Vocabularies : Range(paragraphs) \cup {p} \subseteq V
    /\ paragraphs' = Append(paragraphs, p)
    /\ UNCHANGED <<images, pc, sectionInfo, i, loc, part1Questions, part2Questions,
                   part3Questions, examData>>
    /\ UNCHANGED otherVars

\* parseAllQuestions is called: detectSections
DetectSections ==
    /\ pc = "extract"
    /\ sectionInfo' = detectSections(paragraphs)
    /\ pc' = "part1"
    /\ UNCHANGED <<paragraphs, images, i, loc, part1Questions, part2Questions,
                   part3Questions, examData>>
    /\ UNCHANGED otherVars

\* parsePart1WithUnderline(paragraphs, part1Start, part2Start, images): entry
P1Enter ==
    /\ pc = "part1"
    /\ IF sectionInfo.part1Start < 0 \/ sectionInfo.part2Start <= sectionInfo.part1Start
       THEN /\ part1Questions' = <<>>
            /\ pc' = "part2"
            /\ UNCHANGED <<i, loc>>
       ELSE /\ loc' = P1Locals
            /\ i' = sectionInfo.part1Start
            /\ pc' = "part1_loop"
            /\ UNCHANGED part1Questions
    /\ UNCHANGED <<paragraphs, images, sectionInfo, part2Questions, part3Questions, examData>>
    /\ UNCHANGED otherVars

P1Step ==
    /\ pc = "part1_loop"
    /\ i < sectionInfo.part2Start
    /\ loc' = P1Iteration(loc, paragraphs[i + 1], i, images)
    /\ i' = i + 1
    /\ UNCHANGED <<paragraphs, images, pc, sectionInfo, part1Questions, part2Questions,
                   part3Questions, examData>>
    /\ UNCHANGED otherVars

P1Return ==
    /\ pc = "part1_loop"
    /\ i >= sectionInfo.part2Start
    /\ part1Questions' = P1Result(loc)
    /\ pc' = "part2"
    /\ UNCHANGED <<paragraphs, images, sectionInfo, i, loc, part2Questions,
                   part3Questions, examData>>
    /\ UNCHANGED otherVars

\* parsePart2(paragraphs, part2Start, part3Start, images): entry
P2Enter ==
    /\ pc = "part2"
    /\ IF \/ sectionInfo.part2Start < 0
          \/ sectionInfo.part3Start <= sectionInfo.part2Start
          \/ sectionInfo.part2Start >= Len(paragraphs)
       THEN /\ part2Questions' = <<>>
            /\ pc' = "part3"
            /\ UNCHANGED <<i, loc>>
       ELSE /\ loc' = P2Locals
            /\ i' = sectionInfo.part2Start
            /\ pc' = "part2_loop"
            /\ UNCHANGED part2Questions
    /\ UNCHANGED <<paragraphs, images, sectionInfo, part1Questions, part3Questions, examData>>
    /\ UNCHANGED otherVars

P2Step ==
    /\ pc = "part2_loop"
    /\ i < sectionInfo.part3Start
    /\ loc' = P2Iteration(loc, paragraphs[i + 1], i, images)
    /\ i' = i + 1
    /\ UNCHANGED <<paragraphs, images, pc, sectionInfo, part1Questions, part2Questions,
                   part3Questions, examData>>
    /\ UNCHANGED otherVars

P2Return ==
    /\ pc = "part2_loop"
    /\ i >= sectionInfo.part3Start
    /\ part2Questions' = P2Result(loc)
    /\ pc' = "part3"
    /\ UNCHANGED <<paragraphs, images, sectionInfo, i, loc, part1Questions,
                   part3Questions, examData>>
    /\ UNCHANGED otherVars

\* parsePart3(paragraphs, part3Start, paragraphs.length, images): entry
P3Enter ==
    /\ pc = "part3"
    /\ IF sectionInfo.part3Start < 0 \/ sectionInfo.part3Start >= Len(paragraphs)
       THEN /\ part3Questions' = <<>>
            /\ pc' = "assemble"
            /\ UNCHANGED <<i, loc>>
       ELSE /\ loc' = P3Locals
            /\ i' = sectionInfo.part3Start
            /\ pc' = "part3_loop"
            /\ UNCHANGED part3Questions
    /\ UNCHANGED <<paragraphs, images, sectionInfo, part1Questions, part2Questions, examData>>
    /\ UNCHANGED otherVars

P3Step ==
    /\ pc = "part3_loop"
    /\ i < Len(paragraphs)
    /\ loc' = P3Iteration(loc, paragraphs[i + 1], i, images)
    /\ i' = i + 1
    /\ UNCHANGED <<paragraphs, images, pc, sectionInfo, part1Questions, part2Questions,
                   part3Questions, examData>>
    /\ UNCHANGED otherVars

P3Return ==
    /\ pc = "part3_loop"
    /\ i >= Len(paragraphs)
    /\ part3Questions' = P3Result(loc)
    /\ pc' = "assemble"
    /\ UNCHANGED <<paragraphs, images, sectionInfo, i, loc, part1Questions,
                   part2Questions, examData>>
    /\ UNCHANGED otherVars

\* the three section blocks of parseAllQuestions, and its return
Assemble ==
    /\ pc = "assemble"
    /\ examData' = AssemblePart3(
                       AssemblePart2(
                           AssemblePart1(EmptyExamData, part1Questions),
                           part2Questions),
                       part3Questions)
    /\ pc' = "done"
    /\ UNCHANGED <<paragraphs, images, sectionInfo, i, loc, part1Questions,
                   part2Questions, part3Questions>>
    /\ UNCHANGED otherVars

Next ==
    \/ \E p \in Paragraphs : AddParagraph(p)
    \/ DetectSections
    \/ P1Enter \/ P1Step \/ P1Return
    \/ P2Enter \/ P2Step \/ P2Return
    \/ P3Enter \/ P3Step \/ P3Return
    \/ Assemble

Spec == Init /\ [][Next]_vars

-----------------------------------------------------------------------------
(* escapeHtmlPreserveLaTeX on its own, over every text of a small alphabet *)

\* the characters of the texts: the delimiter, the three characters the
\* sanitizer escapes, and a letter
TextChars == {"$", "&", "<", ">", "x"}

\* the caller builds the argument, one character at a time
TypeChar(c) ==
    /\ escaped = <<>>
    /\ Len(rawText) < MaxTextLen
    /\ rawText' = Append(rawText, c)
    /\ UNCHANGED <<escaped, parserVars, containerVars, validatorVars, unitVars>>

\* escapeHtmlPreserveLaTeX is called: on rawText, and then on what it returned
Sanitize ==
    /\ Len(escaped) < MaxApplications
    /\ escaped' = Append(escaped,
                         escapeHtmlPreserveLaTeX(
                             IF escaped = <<>> THEN rawText ELSE escaped[Len(escaped)]))
    /\ UNCHANGED <<rawText, parserVars, containerVars, validatorVars, unitVars>>

NextSanitizer ==
    \/ \E c \in TextChars : TypeChar(c)
    \/ Sanitize

SpecSanitizer == Init /\ [][NextSanitizer]_vars

-----------------------------------------------------------------------------
(* parseWordToExam and extractImages over a container *)

\* target.includes('media/'): some folder of the target is media
IsMediaTarget(target) == \E k \in 1..Len(target.dirs) : target.dirs[k] = "media"

\* imageRelMap.set(rId, filename); the Map is kept in insertion order
MapSet(map, rId, filename) ==
    IF \E k \in 1..Len(map) : map[k].rId = rId
    THEN [k \in 1..Len(map) |->
             IF map[k].rId = rId THEN [rId |-> rId, filename |-> filename] ELSE map[k]]
    ELSE Append(map, [rId |-> rId, filename |-> filename])

\* the while loop over the matches of relPattern
RECURSIVE BuildRelMap(_, _)
BuildRelMap(content, map) ==
    IF content = <<>> THEN map
    ELSE BuildRelMap(Tail(content),
                     IF IsMediaTarget(content[1].target)
                     THEN MapSet(map, content[1].rId, content[1].target.name)
                     ELSE map)

\* a slip: the folder entries are not left out
IsMediaFile_AnyEntry(entry) ==
    /\ Len(entry.path.dirs) >= 2
    /\ entry.path.dirs[1] = "word"
    /\ entry.path.dirs[2] = "media"

\* path.startsWith('word/media/') && !zipEntry.dir
IsMediaFile(entry) ==
    /\ Len(entry.path.dirs) >= 2
    /\ entry.path.dirs[1] = "word"
    /\ entry.path.dirs[2] = "media"
    /\ ~entry.dir

\* the rId of the first entry of imageRelMap with this filename, else ''
LookupRId(map, filename) ==
    LET hits == {k \in 1..Len(map) : map[k].filename = filename}
    IN  IF hits = {} THEN <<>> ELSE map[Min(hits)].rId

\* `img_${images.length}`
ImageIds == <<"img_0", "img_1", "img_2", "img_3", "img_4">>

\* the object pushed to images (base64 and contentType are left out)
NewImage(imgs, map, entry) ==
    [id |-> ImageIds[Len(imgs) + 1], filename |-> entry.path.name,
     rId |-> LookupRId(map, entry.path.name)]

\* a slip: the missing document is not noticed
HasDocument_Always(document) == TRUE

\* if (!documentXml) throw: the part is there, readable and not empty
HasDocument(document) == document = "present"

\* file.name.replace(/\.docx$/i, '')
StripDocx(name) ==
    IF Len(name) >= 5
       /\ toLowerCase(SubSeq(name, Len(name) - 4, Len(name))) = <<".", "d", "o", "c", "x">>
    THEN SubSeq(name, 1, Len(name) - 5) ELSE name

\* the caller picks the file and calls parseWordToExam
CallParse(f) ==
    /\ call.pc = "start"
    /\ file' = f
    /\ call' = [call EXCEPT !.pc = "load"]
    /\ UNCHANGED <<parserVars, sanitizerVars, validatorVars, unitVars>>

\* await JSZip.loadAsync(arrayBuffer)
LoadZip ==
    /\ call.pc = "load"
    /\ call' = IF file.opens THEN [call EXCEPT !.pc = "rels"]
               ELSE [call EXCEPT !.pc = "done", !.outcome = "rejected"]
    /\ UNCHANGED <<file, parserVars, sanitizerVars, validatorVars, unitVars>>

\* extractImages: the manifest; a failed read ends the try block
ReadRels ==
    /\ call.pc = "rels"
    /\ call' = CASE file.rels.state = "unreadable" ->
                      [call EXCEPT !.pc = "document", !.warnings = @ + 1]
                 [] file.rels.state = "absent" -> [call EXCEPT !.pc = "media"]
                 [] file.rels.state = "read" ->
                      [call EXCEPT !.pc = "media",
                                   !.imageRelMap = BuildRelMap(file.rels.content, <<>>)]
    /\ UNCHANGED <<file, parserVars, sanitizerVars, validatorVars, unitVars>>

\* extractImages: one iteration over zip.files; a failed read ends the try
\* block
ReadMedia ==
    /\ call.pc = "media"
    /\ call.k < Len(file.files)
    /\ LET entry == file.files[call.k + 1]
       IN  call' = IF ~IsMediaFile(entry) THEN [call EXCEPT !.k = @ + 1]
                   ELSE IF ~entry.readable
                   THEN [call EXCEPT !.pc = "document", !.warnings = @ + 1]
                   ELSE [call EXCEPT !.k = @ + 1,
                                     !.images = Append(@, NewImage(@, call.imageRelMap, entry))]
    /\ UNCHANGED <<file, parserVars, sanitizerVars, validatorVars, unitVars>>

\* extractImages returns after the last entry
MediaDone ==
    /\ call.pc = "media"
    /\ call.k >= Len(file.files)
    /\ call' = [call EXCEPT !.pc = "document"]
    /\ UNCHANGED <<file, parserVars, sanitizerVars, validatorVars, unitVars>>

\* word/document.xml, parseAllQuestions on its (no) paragraphs, the metadata
\* and the return
ReadDocument ==
    /\ call.pc = "document"
    /\ call' = IF HasDocument(file.document)
               THEN [call EXCEPT !.pc = "done", !.outcome = "returned",
                                 !.value = <<[EmptyExamData EXCEPT
                                                 !.title = StripDocx(file.name),
                                                 !.images = call.images]>>]
               ELSE [call EXCEPT !.pc = "done", !.outcome = "rejected"]
    /\ UNCHANGED <<file, parserVars, sanitizerVars, validatorVars, unitVars>>

NextContainer ==
    \/ \E f \in Files : CallParse(f)
    \/ LoadZip
    \/ ReadRels
    \/ ReadMedia
    \/ MediaDone
    \/ ReadDocument

SpecContainer == Init /\ [][NextContainer]_vars

-----------------------------------------------------------------------------
(* validateExamData over an ExamData *)

\* stems: empty, one space, a line break between spaces, a letter, a letter
\* after a space
StemTexts == {<<>>, <<" ">>, <<" ", "\n">>, <<"x">>, <<" ", "x">>}

\* the Question convertToQuestion makes of question 1 of a section with this
\* stem and this answer
InputQuestion(part, stem, answer) ==
    convertToQuestion(
        [NewParsedQuestion(1, part, IF part = 1 THEN "multiple_choice" ELSE "short_answer", 0)
            EXCEPT !.text = stem, !.correctAnswer = answer],
        0)

InputQuestions ==
    {InputQuestion(part, stem, answer) :
        part \in {1, 3}, stem \in StemTexts, answer \in {Null, <<"A">>}}

\* the caller puts one more question into the ExamData
AddQuestion(q) ==
    /\ validation = <<>>
    /\ Len(data.questions) < MaxQuestions
    /\ data' = [data EXCEPT !.questions = Append(@, q)]
    /\ UNCHANGED <<validation, parserVars, sanitizerVars, containerVars, unitVars>>

\* validateExamData(data) is called and returns; it assigns to nothing of data
Validate ==
    /\ validation = <<>>
    /\ validation' = <<validateExamData(data)>>
    /\ UNCHANGED <<data, parserVars, sanitizerVars, containerVars, unitVars>>

NextValidator ==
    \/ \E q \in InputQuestions : AddQuestion(q)
    \/ Validate

SpecValidator == Init /\ [][NextValidator]_vars

-----------------------------------------------------------------------------
(* attachImages over an asset list and one question *)

\* file names of media entries, and the relationship ids the manifest gives
\* them: none, rId1 or rId2 (written r1, r2)
AssetNames == {<<"1">>, <<"a">>}
AssetRIds == {<<>>, <<"r", "1">>, <<"r", "2">>}

\* the relationship ids a paragraph refers to: r1 (the file name "1" is a
\* substring of it), r2, one that only contains the file name "a", and one
\* that matches nothing
References == {<<"r", "1">>, <<"r", "2">>, <<"x", "a">>, <<"z", "z">>}

\* the imageRIds of a paragraph: one or two references, repeated or not
ReferenceLists ==
    {<<r>> : r \in References} \cup {<<r, s>> : r \in References, s \in References}

\* extractImages pushes one more asset
AddAsset(filename, rId) ==
    /\ attaching.n = 0
    /\ Len(attaching.images) < MaxAssets
    /\ attaching' = [attaching EXCEPT !.images =
           Append(@, [id |-> ImageIds[Len(@) + 1], filename |-> filename, rId |-> rId])]
    /\ UNCHANGED <<parserVars, sanitizerVars, containerVars, validatorVars,
                   latex, extraction, calls>>

\* attachImages(q, rIds, images) is called and returns
Attach(rIds) ==
    /\ attaching.n < MaxAttach
    /\ attaching' = [attaching EXCEPT
           !.q = attachImages([images |-> @], rIds, attaching.images).images,
           !.rIds = rIds,
           !.n = @ + 1]
    /\ UNCHANGED <<parserVars, sanitizerVars, containerVars, validatorVars,
                   latex, extraction, calls>>

NextAttach ==
    \/ \E filename \in AssetNames, rId \in AssetRIds : AddAsset(filename, rId)
    \/ \E rIds \in ReferenceLists : Attach(rIds)

SpecAttach == Init /\ [][NextAttach]_vars

-----------------------------------------------------------------------------
(* Two calls of parseWordToExam, interleaved at their awaits *)

\* the containers of the interleaved calls: two pictures, the first of them
\* damaged or not, with or without the manifest, with or without the main
\* document part; and a file that is no container
CallFiles ==
    [name : {<<"d", "e", ".", "D", "o", "c", "x">>},
     opens : {TRUE},
     rels : {[state |-> "absent", content |-> <<>>],
             [state |-> "read",
              content |-> <<Relationship(<<"r", "1">>, <<"media">>, APng)>>]},
     document : {"absent", "present"},
     files : {<<Entry(<<"word", "media">>, APng, FALSE, TRUE),
                Entry(<<"word", "media">>, BPng, FALSE, TRUE)>>,
              <<Entry(<<"word", "media">>, BPng, FALSE, TRUE),
                Entry(<<"word", "media">>, APng, FALSE, FALSE)>>}]
      \cup
    [name : {<<"d", "e", ".", "D", "o", "c", "x">>},
     opens : {FALSE},
     rels : {[state |-> "absent", content |-> <<>>]},
     document : {"absent"},
     files : {<<>>}]

\* the reads a call awaits: the container, the manifest, the media entry
\* number n of zip.files, the main document part
ZipRead == <<"zip", 0>>
RelsRead == <<"rels", 0>>
MediaRead(n) == <<"media", n>>
DocumentRead == <<"document", 0>>

\* a slip: images.length is replaced by a counter of the module, which all
\* calls share
ImageIndex_ModuleCounter(cs, c) ==
    LET RECURSIVE Total(_)
        Total(S) == IF S = {} THEN 0
                    ELSE LET x == CHOOSE y \in S : TRUE
                         IN  Len(cs[x].images) + Total(S \ {x})
    IN  Total(DOMAIN cs)

\* `img_${images.length}`: images is a local of the call of extractImages
ImageIndex(cs, c) == Len(cs[c].images)

\* a slip: the media read is not awaited; the loop goes on with the promise
AfterIssue_NotAwaited(cl, read) ==
    IF read[1] = "media"
    THEN [cl EXCEPT !.pending = @ \cup {read}, !.k = @ + 1,
                    !.images = Append(@, NewImage(@, cl.imageRelMap, cl.file.files[read[2]]))]
    ELSE [cl EXCEPT !.pending = @ \cup {read}, !.awaiting = read]

\* await <read>: the read is issued and the call is suspended on it
AfterIssue(cl, read) == [cl EXCEPT !.pending = @ \cup {read}, !.awaiting = read]

\* the read the call issues next, <<>> when its next step is not a read
NextRead(cl) ==
    CASE cl.pc = "load" -> ZipRead
      [] cl.pc = "rels" /\ cl.file.rels.state # "absent" -> RelsRead
      [] cl.pc = "media" /\ cl.k < Len(cl.file.files)
            /\ IsMediaFile(cl.file.files[cl.k + 1]) -> MediaRead(cl.k + 1)
      [] cl.pc = "document" -> DocumentRead
      [] OTHER -> <<>>

\* the continuation of call c after the read it awaited has settled, up to
\* its next await
Resume(cs, c, read) ==
    LET cl == [cs[c] EXCEPT !.awaiting = <<>>]
    IN  CASE read = ZipRead ->
               IF cl.file.opens THEN [cl EXCEPT !.pc = "rels"]
               ELSE [cl EXCEPT !.pc = "done", !.outcome = "rejected"]
          [] read = RelsRead ->
               IF cl.file.rels.state = "unreadable"
               THEN [cl EXCEPT !.pc = "document", !.warnings = @ + 1]
               ELSE [cl EXCEPT !.pc = "media",
                               !.imageRelMap = BuildRelMap(cl.file.rels.content, <<>>)]
          [] read[1] = "media" ->
               LET entry == cl.file.files[read[2]]
               IN  IF ~entry.readable
                   THEN [cl EXCEPT !.pc = "document", !.warnings = @ + 1]
                   ELSE [cl EXCEPT !.k = @ + 1,
                             !.images = Append(@,
                                 [NewImage(@, cl.imageRelMap, entry)
                                     EXCEPT !.id = ImageIds[ImageIndex(cs, c) + 1]])]
          [] read = DocumentRead ->
               IF HasDocument(cl.file.document)
               THEN [cl EXCEPT !.pc = "done", !.outcome = "returned",
                               !.value = <<[EmptyExamData EXCEPT
                                               !.title = StripDocx(cl.file.name),
                                               !.images = cl.images]>>]
               ELSE [cl EXCEPT !.pc = "done", !.outcome = "rejected"]

\* the steps of call c that read nothing: no manifest, an entry that is no
\* media file, the end of the loop
Proceed(cs, c) ==
    LET cl == cs[c]
    IN  CASE cl.pc = "rels" -> [cl EXCEPT !.pc = "media"]
          [] cl.pc = "media" /\ cl.k < Len(cl.file.files) -> [cl EXCEPT !.k = @ + 1]
          [] cl.pc = "media" -> [cl EXCEPT !.pc = "document"]

\* a caller calls parseWordToExam(f)
StartCall(c, f) ==
    /\ calls[c].pc = "start"
    /\ calls' = [calls EXCEPT ![c] = [NotStarted EXCEPT !.file = f, !.pc = "load"]]
    /\ UNCHANGED <<parserVars, sanitizerVars, containerVars, validatorVars,
                   attaching, latex, extraction>>

\* call c reaches an await and issues its read
IssueRead(c) ==
    /\ calls[c].awaiting = <<>>
    /\ NextRead(calls[c]) # <<>>
    /\ NextRead(calls[c]) \notin calls[c].pending
    /\ calls' = [calls EXCEPT ![c] = AfterIssue(@, NextRead(@))]
    /\ UNCHANGED <<parserVars, sanitizerVars, containerVars, validatorVars,
                   attaching, latex, extraction>>

\* a read of call c settles; the call resumes if it waited for it
SettleRead(c, read) ==
    /\ read \in calls[c].pending
    /\ LET settled == [calls EXCEPT ![c].pending = @ \ {read}]
       IN  calls' = IF calls[c].awaiting = read
                    THEN [settled EXCEPT ![c] = Resume(settled, c, read)]
                    ELSE settled
    /\ UNCHANGED <<parserVars, sanitizerVars, containerVars, validatorVars,
                   attaching, latex, extraction>>

\* call c runs on without reading
ProceedCall(c) ==
    /\ calls[c].awaiting = <<>>
    /\ calls[c].pc \in {"rels", "media"}
    /\ NextRead(calls[c]) = <<>>
    /\ calls' = [calls EXCEPT ![c] = Proceed(calls, c)]
    /\ UNCHANGED <<parserVars, sanitizerVars, containerVars, validatorVars,
                   attaching, latex, extraction>>

NextCalls ==
    \E c \in Callers :
        \/ \E f \in CallFiles : StartCall(c, f)
        \/ IssueRead(c)
        \/ \E read \in calls[c].pending : SettleRead(c, read)
        \/ ProceedCall(c)

SpecCalls == Init /\ [][NextCalls]_vars

-----------------------------------------------------------------------------
(* normalizeVietnamese and normalizeLatex *)

\* text.normalize('NFC'): every character of the model is one composed
\* letter already, which NFC leaves as it is
normalizeVietnamese(text) == text

Backslash == "\\"

\* GetSubstitution of String.prototype.replace for a regular expression with
\* the capture groups `groups`: as for a string pattern, and $n (n a digit
\* from 1 to the number of groups) is group n; with fewer than ten groups
\* the two-digit form $nn never applies
RECURSIVE GetSubstitutionCaptures(_, _, _, _, _)
GetSubstitutionCaptures(replacement, matched, before, after, groups) ==
    IF replacement = <<>> THEN <<>>
    ELSE IF replacement[1] = "$" /\ Len(replacement) >= 2
            /\ replacement[2] \in {"$", "&", "backtick", "'"}
    THEN (CASE replacement[2] = "$" -> <<"$">>
            [] replacement[2] = "&" -> matched
            [] replacement[2] = "backtick" -> before
            [] replacement[2] = "'" -> after)
         \o GetSubstitutionCaptures(SubSeq(replacement, 3, Len(replacement)),
                                    matched, before, after, groups)
    ELSE IF replacement[1] = "$" /\ Len(replacement) >= 2
            /\ replacement[2] \in Digits \ {"0"}
            /\ DigitValue(replacement[2]) <= Len(groups)
    THEN groups[DigitValue(replacement[2])]
         \o GetSubstitutionCaptures(SubSeq(replacement, 3, Len(replacement)),
                                    matched, before, after, groups)
    ELSE <<replacement[1]>>
         \o GetSubstitutionCaptures(Tail(replacement), matched, before, after, groups)

\* s has the characters of lit from position k on
HasAt(s, k, lit) == k + Len(lit) - 1 <= Len(s) /\ SubSeq(s, k, k + Len(lit) - 1) = lit

\* s.replace(/<open>([\s\S]*?)<close>/g, replacement) from position pos on,
\* open and close being literals: the leftmost open, the nearest close after
\* it, the text between them as group 1; `done` is the result so far
RECURSIVE ReplaceDelimited(_, _, _, _, _, _)
ReplaceDelimited(s, pos, done, open, close, replacement) ==
    LET opens == {k \in pos..Len(s) :
                     /\ HasAt(s, k, open)
                     /\ \E j \in (k + Len(open))..Len(s) : HasAt(s, j, close)}
    IN  IF opens = {} THEN done \o SubSeq(s, pos, Len(s))
        ELSE LET k == Min(opens)
                 j == Min({x \in (k + Len(open))..Len(s) : HasAt(s, x, close)})
                 stop == j + Len(close)
                 sub == GetSubstitutionCaptures(replacement,
                            SubSeq(s, k, stop - 1), SubSeq(s, 1, k - 1),
                            SubSeq(s, stop, Len(s)), <<SubSeq(s, k + Len(open), j - 1)>>)
             IN  ReplaceDelimited(s, stop, done \o SubSeq(s, pos, k - 1) \o sub,
                                  open, close, replacement)

\* s.replace(/<lit>/g, replacement) for a literal without capture groups
RECURSIVE ReplaceLiteral(_, _, _, _, _)
ReplaceLiteral(s, pos, done, lit, replacement) ==
    LET hits == {k \in pos..Len(s) : HasAt(s, k, lit)}
    IN  IF hits = {} THEN done \o SubSeq(s, pos, Len(s))
        ELSE LET k == Min(hits)
                 stop == k + Len(lit)
                 sub == GetSubstitutionCaptures(replacement, lit, SubSeq(s, 1, k - 1),
                                                SubSeq(s, stop, Len(s)), <<>>)
             IN  ReplaceLiteral(s, stop, done \o SubSeq(s, pos, k - 1) \o sub,
                                lit, replacement)

\* s.replace(/[<cs>]{least,}/g, replacement) from position pos on: every
\* maximal run of at least `least` characters of the class cs
RECURSIVE ReplaceRuns(_, _, _, _, _, _)
ReplaceRuns(s, pos, done, cs, least, replacement) ==
    IF pos > Len(s) THEN done
    ELSE IF s[pos] \notin cs
    THEN ReplaceRuns(s, pos + 1, Append(done, s[pos]), cs, least, replacement)
    ELSE LET stop == Min({k \in (pos + 1)..(Len(s) + 1) : k > Len(s) \/ s[k] \notin cs})
             run == SubSeq(s, pos, stop - 1)
         IN  ReplaceRuns(s, stop,
                 done \o (IF Len(run) >= least
                          THEN GetSubstitutionCaptures(replacement, run,
                                   SubSeq(s, 1, pos - 1), SubSeq(s, stop, Len(s)), <<>>)
                          ELSE run),
                 cs, least, replacement)

BeginAlign == <<Backslash, "b", "e", "g", "i", "n", "{", "a", "l", "i", "g", "n">>
EndAlign == <<Backslash, "e", "n", "d", "{", "a", "l", "i", "g", "n">>

\* s.replace(/\${3,}/g, '$$')
CollapseDollars(s) == ReplaceRuns(s, 1, <<>>, {"$"}, 3, <<"$", "$">>)

\* s.replace(/\\\[([\s\S]*?)\\\]/g, '$$$$1$$$$')
ConvertBlocks(s) ==
    ReplaceDelimited(s, 1, <<>>, <<Backslash, "[">>, <<Backslash, "]">>,
                     <<"$", "$", "$", "$", "1", "$", "$", "$", "$">>)

\* s.replace(/\\\(([\s\S]*?)\\\)/g, '$$$1$$')
ConvertInline(s) ==
    ReplaceDelimited(s, 1, <<>>, <<Backslash, "(">>, <<Backslash, ")">>,
                     <<"$", "$", "$", "1", "$", "$">>)

\* \begin{align} and \begin{align*} to \begin{aligned}; the same for \end
ConvertAlign(s) ==
    LET a == ReplaceLiteral(s, 1, <<>>, BeginAlign \o <<"*", "}">>, BeginAlign \o <<"e", "d", "}">>)
        b == ReplaceLiteral(a, 1, <<>>, BeginAlign \o <<"}">>, BeginAlign \o <<"e", "d", "}">>)
        c == ReplaceLiteral(b, 1, <<>>, EndAlign \o <<"*", "}">>, EndAlign \o <<"e", "d", "}">>)
    IN  ReplaceLiteral(c, 1, <<>>, EndAlign \o <<"}">>, EndAlign \o <<"e", "d", "}">>)

normalizeLatex(text) ==
    IF text = <<>> THEN <<>>
    ELSE LET a == ConvertBlocks(text)
             b == ConvertInline(a)
             c == ConvertAlign(b)
             d == CollapseDollars(c)
             e == ReplaceRuns(d, 1, <<>>, {" ", "\t"}, 1, <<" ">>)
             f == ReplaceRuns(e, 1, <<>>, {"\n"}, 3, <<"\n", "\n">>)
         IN  trim(f)

-----------------------------------------------------------------------------
(* normalizeLatex over a text *)

\* the characters of the texts: the dollar sign, the backslash, the brackets
\* of the two math forms and a letter
LatexChars == {"$", Backslash, "[", "]", "(", ")", "x"}

\* the caller makes the argument one character longer
TypeLatex(c) ==
    /\ latex.out = <<>>
    /\ Len(latex.text) < MaxLatexLen
    /\ latex' = [latex EXCEPT !.text = Append(@, c)]
    /\ UNCHANGED <<parserVars, sanitizerVars, containerVars, validatorVars,
                   attaching, extraction, calls>>

\* normalizeLatex(text) is called and returns
Normalize ==
    /\ latex.out = <<>>
    /\ latex' = [latex EXCEPT !.out = <<normalizeLatex(latex.text)>>]
    /\ UNCHANGED <<parserVars, sanitizerVars, containerVars, validatorVars,
                   attaching, extraction, calls>>

NextNormalizer ==
    \/ \E c \in LatexChars : TypeLatex(c)
    \/ Normalize

SpecNormalizer == Init /\ [][NextNormalizer]_vars

-----------------------------------------------------------------------------
(* extractParagraphsWithUnderline over one w:p element *)

\* an image element of a run: a direct a:blip, a v:imagedata, or an a:blip
\* inside a w:drawing; embed is r:embed (r:id for v:imagedata) and relid is
\* o:relid, <<>> for an attribute that is missing
ImageElement(kind, embed, relid) == [kind |-> kind, embed |-> embed, relid |-> relid]

\* a w:r element: its image elements in document order, whether its w:rPr
\* holds a w:u, and the text of its w:t, m:t, w:instrText and w:br children
Run(elements, underlined, runText) ==
    [elements |-> elements, underlined |-> underlined, text |-> runText]

MarkdownA == <<"[", "A", "]", "{", ".", "u", "n", "d", "e", "r", "l", "i", "n", "e", "}">>

RunElements ==
    {<<>>,
     <<ImageElement("blip", <<"r", "1">>, <<>>)>>,
     <<ImageElement("blip", <<>>, <<>>)>>,
     <<ImageElement("drawing", <<"r", "1">>, <<>>)>>,
     <<ImageElement("imagedata", <<"r", "1">>, <<>>)>>,
     <<ImageElement("drawing", <<"r", "2">>, <<>>),
       ImageElement("imagedata", <<>>, <<"r", "2">>)>>}

RunTexts == {<<>>, <<" ">>, <<"x">>, MarkdownA}

Runs == {Run(e, u, t) : e \in RunElements, u \in BOOLEAN, t \in RunTexts}

\* the three loops over the image elements of one run, appending to imageRIds
RECURSIVE CollectBlips(_, _)
CollectBlips(elements, rIds) ==
    IF elements = <<>> THEN rIds
    ELSE CollectBlips(Tail(elements),
             IF elements[1].kind \in {"blip", "drawing"} /\ Truthy(elements[1].embed)
             THEN Append(rIds, elements[1].embed) ELSE rIds)

RECURSIVE CollectImageData(_, _)
CollectImageData(elements, rIds) ==
    IF elements = <<>> THEN rIds
    ELSE LET rid == IF Truthy(elements[1].embed) THEN elements[1].embed
                    ELSE elements[1].relid
         IN  CollectImageData(Tail(elements),
                 IF elements[1].kind = "imagedata" /\ Truthy(rid)
                 THEN Append(rIds, rid) ELSE rIds)

RECURSIVE CollectDrawings(_, _)
CollectDrawings(elements, rIds) ==
    IF elements = <<>> THEN rIds
    ELSE CollectDrawings(Tail(elements),
             IF elements[1].kind = "drawing" /\ Truthy(elements[1].embed)
                /\ elements[1].embed \notin Range(rIds)
             THEN Append(rIds, elements[1].embed) ELSE rIds)

CollectImages(run, rIds) ==
    CollectDrawings(run.elements,
        CollectImageData(run.elements, CollectBlips(run.elements, rIds)))

\* the loop over the runs: text, imageRIds, hasUnderline, underlinedSegments
RECURSIVE CollectRuns(_, _)
CollectRuns(runs, acc) ==
    IF runs = <<>> THEN acc
    ELSE LET run == runs[1]
             marked == run.underlined /\ Truthy(trim(run.text))
         IN  CollectRuns(Tail(runs),
                 [text |-> acc.text \o run.text,
                  imageRIds |-> CollectImages(run, acc.imageRIds),
                  hasUnderline |-> acc.hasUnderline \/ marked,
                  underlinedSegments |->
                      IF marked THEN Append(acc.underlinedSegments, trim(run.text))
                      ELSE acc.underlinedSegments])

\* the matches of /\[([A-Da-d])\]\{\.underline\}/g in s from position pos:
\* the letters (group 1), and s with every match replaced by '$1'
MarkdownTail == SubSeq(MarkdownA, 3, Len(MarkdownA))
MarkdownAt(s, k) ==
    /\ k + Len(MarkdownA) - 1 <= Len(s)
    /\ s[k] = "["
    /\ s[k + 1] \in {"A", "B", "C", "D", "a", "b", "c", "d"}
    /\ SubSeq(s, k + 2, k + Len(MarkdownA) - 1) = MarkdownTail

RECURSIVE MarkdownLetters(_, _)
MarkdownLetters(s, pos) ==
    LET hits == {k \in pos..Len(s) : MarkdownAt(s, k)}
    IN  IF hits = {} THEN <<>>
        ELSE <<<<s[Min(hits) + 1]>>>> \o MarkdownLetters(s, Min(hits) + Len(MarkdownA))

RECURSIVE StripMarkdown(_, _)
StripMarkdown(s, pos) ==
    LET hits == {k \in pos..Len(s) : MarkdownAt(s, k)}
    IN  IF hits = {} THEN SubSeq(s, pos, Len(s))
        ELSE LET k == Min(hits)
             IN  SubSeq(s, pos, k - 1)
                 \o GetSubstitutionCaptures(<<"$", "1">>, SubSeq(s, k, k + Len(MarkdownA) - 1),
                        SubSeq(s, 1, k - 1), SubSeq(s, k + Len(MarkdownA), Len(s)),
                        <<<<s[k + 1]>>>>)
                 \o StripMarkdown(s, k + Len(MarkdownA))

\* text.replace(/[ \t]*\n[ \t]*/g, '\n'): the spaces and tabs next to a line
\* break go
AroundNewline(s, k) ==
    /\ s[k] \in {" ", "\t"}
    /\ \/ \E j \in (k + 1)..Len(s) :
             s[j] = "\n" /\ \A x \in k..(j - 1) : s[x] \in {" ", "\t"}
       \/ \E j \in 1..(k - 1) :
             s[j] = "\n" /\ \A x \in (j + 1)..k : s[x] \in {" ", "\t"}

RECURSIVE SelectChars(_, _, _)
SelectChars(s, k, keep) ==
    IF k > Len(s) THEN <<>>
    ELSE (IF k \in keep THEN <<s[k]>> ELSE <<>>) \o SelectChars(s, k + 1, keep)

NormalizeNewlines(s) ==
    trim(SelectChars(s, 1, {k \in 1..Len(s) : ~AroundNewline(s, k)}))

\* one iteration of the loop over the w:p elements: <<record>> when the
\* paragraph is pushed, <<>> when it is dropped
extractParagraph(runs) ==
    LET acc == CollectRuns(runs, [text |-> <<>>, imageRIds |-> <<>>,
                                  hasUnderline |-> FALSE, underlinedSegments |-> <<>>])
        normalized == normalizeLatex(normalizeVietnamese(trim(acc.text)))
        letters == MarkdownLetters(normalized, 1)
        final == NormalizeNewlines(StripMarkdown(normalized, 1))
    IN  IF Truthy(final) \/ Len(acc.imageRIds) > 0
        THEN <<Para(final, acc.imageRIds, acc.hasUnderline \/ letters # <<>>,
                    acc.underlinedSegments \o letters)>>
        ELSE <<>>

\* the w:p element has one more run
AddRun(run) ==
    /\ ~extraction.done
    /\ Len(extraction.runs) < MaxRuns
    /\ extraction' = [extraction EXCEPT !.runs = Append(@, run)]
    /\ UNCHANGED <<parserVars, sanitizerVars, containerVars, validatorVars,
                   attaching, latex, calls>>

\* the extractor goes over the w:p element
ExtractParagraph ==
    /\ ~extraction.done
    /\ extraction' = [extraction EXCEPT !.out = extractParagraph(extraction.runs),
                                        !.done = TRUE]
    /\ UNCHANGED <<parserVars, sanitizerVars, containerVars, validatorVars,
                   attaching, latex, calls>>

NextExtractor ==
    \/ \E run \in Runs : AddRun(run)
    \/ ExtractParagraph

SpecExtractor == Init /\ [][NextExtractor]_vars

-----------------------------------------------------------------------------
(* Vocabulary of the properties *)

InLoop == pc \in {"part1_loop", "part2_loop", "part3_loop"}

LoopStart ==
    CASE pc = "part1_loop" -> sectionInfo.part1Start
      [] pc = "part2_loop" -> sectionInfo.part2Start
      [] pc = "part3_loop" -> sectionInfo.part3Start
      [] OTHER -> 0

\* the running parser has just read paragraph i - 1
JustRead == InLoop /\ i > LoopStart
LastRead == paragraphs[i]

\* this step is one loop iteration, reading paragraph i
ReadStep == InLoop /\ pc' = pc /\ i' = i + 1
Reading == paragraphs[i + 1]

\* the questions a section parser has returned or is about to return
ParserOutputs ==
    Range(part1Questions) \cup Range(part2Questions) \cup Range(part3Questions)
        \cup (IF InLoop THEN Range(loc.questions) ELSE {})

\* the section index of a section of the exam
SectionIndex(sectionType) ==
    CASE sectionType = "multiple_choice" -> 1
      [] sectionType = "true_false" -> 2
      [] sectionType = "short_answer" -> 3

\* the number written in the question-start paragraph of q
AuthoredNumber(q) == parseInt(MatchQuestion(paragraphs[q.src + 1].text).num)

\* some paragraph matches a header pattern of detectSections
HasHeader ==
    \E k \in 1..Len(paragraphs) :
        LET t == HeaderTable[paragraphs[k].text]
        IN  t.part1 \/ t.part2 \/ t.part3

\* the header test of the running parser
IsSkippedHeader(text) ==
    IF pc = "part1_loop" THEN IsHeader1(text) ELSE IsHeader23(text)

-----------------------------------------------------------------------------
(* C1 - C2: the encoded question number *)

\* C1 (as claimed): no two questions of examData.questions have the same
\* encoded number.
C1_NumbersUnique ==
    \A a, b \in 1..Len(examData.questions) :
        a # b => examData.questions[a].number # examData.questions[b].number

\* C2: every question of a section of the exam carries the number
\* section_index * 100 + authored_number, the section index being that of the
\* parser whose list the section was built from and the authored number the
\* one written in the paragraph that started the question; and the flat
\* question list holds exactly the questions of the sections.
C2_EncodedNumber ==
    /\ \A s \in 1..Len(examData.sections) :
         \A k \in 1..Len(examData.sections[s].questions) :
            LET q == examData.sections[s].questions[k]
            IN  q.number = SectionIndex(examData.sections[s].sectionType) * 100
                               + AuthoredNumber(q)
    /\ Range(examData.questions) =
          UNION {Range(examData.sections[s].questions) : s \in 1..Len(examData.sections)}

C2_Witness ==
    /\ pc = "done"
    /\ \E a, b \in 1..Len(examData.questions) :
          /\ examData.questions[a].number = 101
          /\ examData.questions[b].number = 301

-----------------------------------------------------------------------------
(* C3: the answer of a section-1 question inferred from underline *)

\* the paragraphs of q that the parser took by branch role
TakenAs(q, rs) == {k \in 1..Len(q.roles) : q.roles[k].role \in rs}

\* the option lines and option continuations of q that carry the underline flag
UnderlinedOptions(q) ==
    {k \in TakenAs(q, {"option", "continuation"}) :
        paragraphs[q.roles[k].idx + 1].hasUnderline}

\* an underlined segment of the question line or of a stem paragraph of q is
\* itself a single letter A-D
LetterInStem(q) ==
    \/ /\ paragraphs[q.src + 1].hasUnderline
       /\ \E n \in 1..Len(paragraphs[q.src + 1].underlinedSegments) :
             IsSingleLetter(paragraphs[q.src + 1].underlinedSegments[n])
    \/ \E k \in TakenAs(q, {"stem"}) :
          LET para == paragraphs[q.roles[k].idx + 1]
          IN  /\ para.hasUnderline
              /\ \E n \in 1..Len(para.underlinedSegments) :
                    IsSingleLetter(para.underlinedSegments[n])

\* the emitted section-1 questions with no "Chon X" paragraph and exactly one
\* underlined option line or continuation
C3Questions ==
    {q \in Range(examData.questions) :
        /\ q.type = "multiple_choice"
        /\ TakenAs(q, {"answer"}) = {}
        /\ Cardinality(UnderlinedOptions(q)) = 1}

C3Answer(q) ==
    q.correctAnswer =
        toUpperCase((q.roles[CHOOSE k \in UnderlinedOptions(q) : TRUE]).letter)

\* C3 (as claimed): a section-1 question with no "Chon X" paragraph and
\* exactly one underlined option line or continuation has that option's
\* letter, upper-cased, as correctAnswer, whatever else it contains.
C3_AnyQuestion == \A q \in C3Questions : C3Answer(q)

\* C3 (amended): the same, for questions in which no underlined segment of
\* the question line or of a stem paragraph is itself a single letter A-D;
\* and the document "Cau 1. x", "A. x", underlined "B. y" yields exactly one
\* question, numbered 101, with correctAnswer "B".
C3_UnderlinedOption ==
    /\ \A q \in C3Questions : ~LetterInStem(q) => C3Answer(q)
    /\ (pc = "done" /\ paragraphs = <<ParaCau1x, ParaOptA, ParaOptBu>>)
          => /\ Len(examData.questions) = 1
             /\ examData.questions[1].number = 101
             /\ examData.questions[1].correctAnswer = <<"B">>

\* a question whose only underline is on the continuation of option A
C3_Witness ==
    /\ pc = "done"
    /\ \E q \in C3Questions :
          /\ ~LetterInStem(q)
          /\ \E k \in UnderlinedOptions(q) : q.roles[k].role = "continuation"
          /\ q.correctAnswer = <<"A">>

-----------------------------------------------------------------------------
(* C4 - C5: the answer of a section-2 question, and the answer key *)

\* s is a comma-joined string of distinct letters a-d in ascending order
IsSortedSubset(s) ==
    /\ Len(s) % 2 = 1
    /\ \A k \in 1..Len(s) :
          IF k % 2 = 1 THEN s[k] \in {"a", "b", "c", "d"} ELSE s[k] = ","
    /\ \A k \in 1..Len(s) :
          (k % 2 = 1 /\ k + 2 <= Len(s)) => CodeUnit(s[k]) < CodeUnit(s[k + 2])

\* C4: the correctAnswer of every question parsePart2 returns, and of every
\* true_false question of the exam, is null or a comma-joined string of
\* distinct letters from a-d in ascending order.
C4_TrueStatements ==
    /\ \A q \in Range(part2Questions) :
          q.correctAnswer = Null \/ IsSortedSubset(q.correctAnswer)
    /\ \A q \in Range(examData.questions) :
          q.type = "true_false" =>
              (q.correctAnswer = Null \/ IsSortedSubset(q.correctAnswer))

\* statement b was read before statement a, both underlined
C4_Witness ==
    /\ pc = "done"
    /\ \E q \in Range(examData.questions) :
          /\ q.type = "true_false"
          /\ q.correctAnswer = <<"a", ",", "b">>
          /\ Len(q.options) = 2 /\ q.options[1].letter = <<"b">>

\* C5 (as claimed): after parseAllQuestions, for every question q of
\* examData.questions with a non-null correctAnswer, examData.answers[q.number]
\* is defined and equals q.correctAnswer.
C5_AnswerKey ==
    pc = "done" =>
        \A q \in Range(examData.questions) :
            q.correctAnswer # Null =>
                /\ q.number \in DOMAIN examData.answers
                /\ examData.answers[q.number] = q.correctAnswer

-----------------------------------------------------------------------------
(* C6: the continuation of an option *)

\* the running parser is parsePart1WithUnderline or parsePart2 and the
\* paragraph it has just read opened an option or statement
OptionJustOpened ==
    /\ pc \in {"part1_loop", "part2_loop"}
    /\ i > LoopStart
    /\ loc.currentQ # <<>>
    /\ Len(loc.currentQ[1].roles) > 0
    /\ LET r == loc.currentQ[1].roles[Len(loc.currentQ[1].roles)]
       IN  r.idx = i - 1 /\ r.role = "option"

\* the paragraph being read is non-empty, is no option or statement line and
\* no figure marker
C6Follows ==
    /\ Reading.text # <<>>
    /\ ~MatchOption(Reading.text).ok
    /\ ~IsFigure(Reading.text)

\* the paragraph being read matches none of the markers the loop body tests
\* before the continuation branch
C6NoMarker ==
    /\ ~IsSkippedHeader(Reading.text)
    /\ ~MatchQuestion(Reading.text).ok
    /\ ~IsSolutionMarker(Reading.text)
    /\ pc = "part1_loop" => ~MatchChon(Reading.text).ok

\* the text "foo bar" made of foo and bar
FooBar(foo, bar) == IF foo = <<>> THEN bar ELSE foo \o <<" ">> \o bar

\* the step appends the text being read to the last option, and changes no
\* other option, nor the stem, nor the solution
C6Appended ==
    /\ loc'.currentQ # <<>>
    /\ LET old == loc.currentQ[1]
           new == loc'.currentQ[1]
           n == Len(old.options)
       IN  /\ Len(new.options) = n
           /\ new.options[n].letter = old.options[n].letter
           /\ new.options[n].text = FooBar(old.options[n].text, Reading.text)
           /\ \A k \in 1..(n - 1) : new.options[k] = old.options[k]
           /\ new.text = old.text
           /\ new.solution = old.solution
    /\ loc'.contentBuffer = loc.contentBuffer
    /\ loc'.solutionBuffer = loc.solutionBuffer
    /\ loc'.questions = loc.questions

\* C6 (as claimed): in sections 1 and 2, when the paragraph after an option
\* line "A. foo" is non-empty, is no option or statement line and no figure
\* marker, and has text "bar", option A's text becomes "foo bar" and no other
\* field receives the text.
C6_AnyFollower ==
    [][(ReadStep /\ OptionJustOpened /\ C6Follows) => C6Appended]_vars

\* C6 (amended): the same, for a following paragraph that also matches none
\* of the section-header, question-start, solution-marker and (section 1)
\* explicit-answer patterns.
C6_Continuation ==
    [][(ReadStep /\ OptionJustOpened /\ C6Follows /\ C6NoMarker) => C6Appended]_vars

\* option A of section 1 reads "x c" after "A. x" and the paragraph "c";
\* statement a of section 2 reads "x Dap an: 4" likewise
C6_Witness ==
    /\ JustRead
    /\ loc.currentQ # <<>>
    /\ Len(loc.currentQ[1].roles) > 1
    /\ LET rs == loc.currentQ[1].roles
       IN  /\ rs[Len(rs)].role = "continuation" /\ rs[Len(rs)].idx = i - 1
           /\ rs[Len(rs) - 1].role = "option"
    /\ \/ pc = "part1_loop" /\ loc.currentQ[1].options[1].text = <<"x", " ", "c">>
       \/ pc = "part2_loop" /\ Len(loc.currentQ[1].options[1].text) > 3

-----------------------------------------------------------------------------
(* C7: a document without section headers *)

-----------------------------------------------------------------------------
(* C8 - C9: figure paragraphs *)

\* the relationship id resolves to an asset, by id or by filename
Resolvable(rId) ==
    \E k \in 1..Len(images) :
        \/ images[k].rId = rId
        \/ images[k].filename # <<>> /\ includes(rId, images[k].filename)

\* an asset the relationship id resolves to is among the question's images
Attached(q, rId) ==
    \E k \in 1..Len(q.images) :
        \/ q.images[k].rId = rId
        \/ q.images[k].filename # <<>> /\ includes(rId, q.images[k].filename)

\* the paragraph just read begins with a figure marker and carries image ids,
\* and a question is current
FigureJustRead ==
    /\ JustRead
    /\ loc.currentQ # <<>>
    /\ IsFigure(LastRead.text)
    /\ Len(LastRead.imageRIds) > 0

AllAttached ==
    \A n \in 1..Len(LastRead.imageRIds) :
        Resolvable(LastRead.imageRIds[n]) => Attached(loc.currentQ[1], LastRead.imageRIds[n])

\* parsePart1WithUnderline or parsePart2 is collecting the solution
InSolution12 == pc \in {"part1_loop", "part2_loop"} /\ loc.inSolution

C8NoMarker ==
    /\ ~IsSkippedHeader(LastRead.text)
    /\ pc = "part1_loop" => ~MatchChon(LastRead.text).ok

TextsOf(l) ==
    <<l.contentBuffer, l.solutionBuffer,
      IF l.currentQ = <<>> THEN <<>>
      ELSE <<l.currentQ[1].text, l.currentQ[1].solution,
             [k \in 1..Len(l.currentQ[1].options) |-> l.currentQ[1].options[k].text]>>,
      [k \in 1..Len(l.questions) |->
          <<l.questions[k].text, l.questions[k].solution, l.questions[k].options>>]>>

\* C9: in all three parsers and in every state, reading a paragraph that
\* begins with a figure marker leaves the stem, the stem buffer, every option
\* or statement text, the solution and the solution buffer as they were.
C9_FigureText ==
    [][(ReadStep /\ IsFigure(Reading.text)) => TextsOf(loc') = TextsOf(loc)]_vars

\* "Hinh 3" was read after an option, after a stem and in a solution
C9_Witness ==
    /\ JustRead
    /\ loc.currentQ # <<>>
    /\ IsFigure(LastRead.text)
    /\ Len(loc.currentQ[1].options) > 0
    /\ loc.collectingContent
    /\ pc = "part1_loop"

-----------------------------------------------------------------------------
(* C10: questions without a stem *)

\* C10: every question a section parser has pushed or returned, and every
\* question of the exam, has a non-empty stem.
C10_StemNonEmpty ==
    /\ \A q \in ParserOutputs : q.text # <<>>
    /\ \A q \in Range(examData.questions) : q.text # <<>>

\* "Cau 2:" gathered an option and an answer and was dropped at the end of
\* the range
C10_Witness ==
    /\ pc = "done"
    /\ Len(paragraphs) = 3
    /\ paragraphs[1] = ParaCau2 /\ paragraphs[2] = ParaOptA /\ paragraphs[3] = ParaChon
    /\ examData.questions = <<>>
    /\ loc.currentQ # <<>>
    /\ loc.currentQ[1].correctAnswer = <<"A">>
    /\ Len(loc.currentQ[1].options) = 1

-----------------------------------------------------------------------------
(* C11: ordinary narrative paragraphs *)

\* the text is ordinary narrative for the parser of section part: non-empty,
\* and matching none of the question-start, solution, explicit-answer,
\* option/statement, figure and header patterns of that parser
Ordinary(text, part) ==
    /\ text # <<>>
    /\ ~MatchQuestion(text).ok
    /\ ~IsSolutionMarker(text)
    /\ ~IsFigure(text)
    /\ IF part = 1 THEN ~IsHeader1(text) ELSE ~IsHeader23(text)
    /\ part = 1 => ~MatchChon(text).ok
    /\ part = 3 => ~MatchAnswer3(text).ok
    /\ part \in {1, 2} => ~MatchOption(text).ok

\* the text of the paragraph noted in r is in the field of q that the state
\* active when it was read collects
KeptIn(q, r) ==
    LET t == paragraphs[r.idx + 1].text
    IN  CASE r.role = "stem" -> includes(q.text, t)
          [] r.role = "continuation" ->
                \E k \in 1..Len(q.options) : includes(q.options[k].text, t)
          [] r.role = "solution" -> includes(q.solution, t)
          [] OTHER -> FALSE

\* C11 (as claimed): every ordinary narrative paragraph read after the
\* question marker of a question that a section parser returns is in that
\* question's stem, in one of its option or statement texts, or in its
\* solution, according to the state in which it was read.
C11_NarrativeKept ==
    \A q \in Range(part1Questions) \cup Range(part2Questions) \cup Range(part3Questions) :
        \A k \in 1..Len(q.roles) :
            Ordinary(paragraphs[q.roles[k].idx + 1].text, q.part) => KeptIn(q, q.roles[k])

-----------------------------------------------------------------------------
(* C12 - C14: the sanitizer *)

\* the block regions of t, and t with each replaced by a placeholder
BlocksOf(t) == ProtectBlocks(t, <<>>)

\* the inline regions of t: those of t outside its block regions
InlinesOf(t) == ProtectInline(BlocksOf(t).text, <<>>)

\* t outside its math regions
OutsideMath(t) == InlinesOf(t).text

HasChar(t, c) == \E k \in 1..Len(t) : t[k] = c

\* position k of t starts an HTML entity of the sanitizer
EntityAt(t, k) ==
    \E e \in {<<"&", "a", "m", "p", ";">>, <<"&", "l", "t", ";">>, <<"&", "g", "t", ";">>} :
        k + Len(e) - 1 <= Len(t) /\ SubSeq(t, k, k + Len(e) - 1) = e

\* C12 (as claimed): in what escapeHtmlPreserveLaTeX returns, every block
\* region of the argument and every inline region of it appears verbatim,
\* with its delimiters; and when the argument has no math region, the result
\* has no "<", no ">" and no "&" other than the first character of an entity.
C12_RegionsVerbatim ==
    escaped # <<>> =>
        /\ \A k \in 1..Len(BlocksOf(rawText).blocks) :
              includes(escaped[1], BlocksOf(rawText).blocks[k])
        /\ \A k \in 1..Len(InlinesOf(rawText).blocks) :
              includes(rawText, InlinesOf(rawText).blocks[k])
                  => includes(escaped[1], InlinesOf(rawText).blocks[k])
        /\ ~HasChar(rawText, "$") =>
              /\ ~HasChar(escaped[1], "<")
              /\ ~HasChar(escaped[1], ">")
              /\ \A k \in 1..Len(escaped[1]) :
                    escaped[1][k] = "&" => EntityAt(escaped[1], k)

\* "__LATEX_BLOCK_", the start of every placeholder token
PlaceholderStart == SubSeq(Placeholder(0), 1, 14)

\* C13 (as claimed): what escapeHtmlPreserveLaTeX returns has as many block
\* regions and as many inline regions as its argument, and no placeholder
\* token.
C13_RegionCount ==
    escaped # <<>> =>
        /\ Len(BlocksOf(escaped[1]).blocks) = Len(BlocksOf(rawText).blocks)
        /\ Len(InlinesOf(escaped[1]).blocks) = Len(InlinesOf(rawText).blocks)
        /\ ~includes(escaped[1], PlaceholderStart)

\* C14 (as claimed): a text with no "&", "<" or ">" outside its math regions
\* is returned unchanged by escapeHtmlPreserveLaTeX, however often it is
\* applied.
C14_Idempotent ==
    (/\ ~HasChar(OutsideMath(rawText), "&")
     /\ ~HasChar(OutsideMath(rawText), "<")
     /\ ~HasChar(OutsideMath(rawText), ">"))
        => \A k \in 1..Len(escaped) : escaped[k] = rawText

-----------------------------------------------------------------------------
(* C15 - C17: failures of the container *)

\* a non-directory entry under word/media/
UnderMedia(e) ==
    /\ ~e.dir
    /\ Len(e.path.dirs) >= 2
    /\ SubSeq(e.path.dirs, 1, 2) = <<"word", "media">>

MediaEntries == SelectSeq(file.files, UnderMedia)

\* C15: when the container cannot be opened or has no word/document.xml,
\* the call of parseWordToExam never holds an ExamData to return and ends
\* rejected, however many media entries extractImages had pushed.
C15_NoPartialResult ==
    (call.pc # "start" /\ (~file.opens \/ file.document = "absent")) =>
        /\ call.value = <<>>
        /\ call.outcome # "returned"
        /\ call.pc = "done" => call.outcome = "rejected"

\* the call was rejected for the missing document after an image was pushed
C15_Witness ==
    /\ call.pc = "done"
    /\ call.outcome = "rejected"
    /\ file.opens /\ file.document = "absent"
    /\ Len(call.images) >= 1

\* the manifest is missing or names no media target
NoMediaRelationship ==
    \/ file.rels.state = "absent"
    \/ /\ file.rels.state = "read"
       /\ \A k \in 1..Len(file.rels.content) :
             \A d \in 1..Len(file.rels.content[k].target.dirs) :
                 file.rels.content[k].target.dirs[d] # "media"

\* one image per non-directory entry under word/media/, in the order of the
\* container, each with an empty relationship id
ImagesWithoutRId ==
    [k \in 1..Len(MediaEntries) |->
        [id |-> ImageIds[k], filename |-> MediaEntries[k].path.name, rId |-> <<>>]]

\* C16: when the manifest is missing or has no media relationship (and the
\* container opens, its media entries can be read and it has a main document
\* part), extractImages returns one image for every non-directory entry
\* under word/media/, each with an empty rId, and parseWordToExam returns an
\* ExamData carrying them.
C16_MissingManifest ==
    (/\ file.opens
     /\ NoMediaRelationship
     /\ \A k \in 1..Len(MediaEntries) : MediaEntries[k].readable
     /\ call.pc \in {"document", "done"})
        => /\ call.images = ImagesWithoutRId
           /\ (call.pc = "done" /\ file.document = "present")
                 => /\ call.outcome = "returned"
                    /\ call.value[1].images = ImagesWithoutRId

\* two pictures and a folder entry, no manifest: two images returned
C16_Witness ==
    /\ call.pc = "done"
    /\ call.outcome = "returned"
    /\ file.rels.state = "absent"
    /\ Len(file.files) = 3
    /\ Len(call.value[1].images) = 2
    /\ \E k \in 1..3 : file.files[k].dir

\* C17 (as claimed): when the read of the manifest or of a media entry
\* fails, the failure is logged, parseWordToExam still returns an ExamData,
\* and every media entry that can be read is in the returned image list.
C17_ExtractionContinues ==
    (/\ call.pc = "done"
     /\ file.opens
     /\ file.document = "present"
     /\ \/ file.rels.state = "unreadable"
        \/ \E k \in 1..Len(MediaEntries) : ~MediaEntries[k].readable)
        => /\ call.outcome = "returned"
           /\ call.warnings >= 1
           /\ \A k \in 1..Len(MediaEntries) :
                 MediaEntries[k].readable =>
                     \E n \in 1..Len(call.value[1].images) :
                         call.value[1].images[n].filename = MediaEntries[k].path.name

-----------------------------------------------------------------------------
(* C18: the answer of a single-choice question *)

AnswerLetters == {<<"A">>, <<"B">>, <<"C">>, <<"D">>}

\* the section-1 questions of the exam
ExamSection1 ==
    {examData.questions[k] : k \in {j \in 1..Len(examData.questions) :
                                       examData.questions[j].type = "multiple_choice"}}

\* C18: the correctAnswer of every question parsePart1WithUnderline returns,
\* and of every section-1 question of the exam, is null or one of the
\* upper-case letters "A", "B", "C", "D", whether a "Chon X" paragraph or an
\* underline gave it.
C18_AnswerLetter ==
    /\ \A q \in Range(part1Questions) :
           q.correctAnswer = Null \/ q.correctAnswer \in AnswerLetters
    /\ \A q \in ExamSection1 :
           q.correctAnswer = Null \/ q.correctAnswer \in AnswerLetters

\* the exam holds a question whose answer "C" comes from the underlined
\* lower-case "c" of its stem, and one whose answer comes from "Chon A"
C18_Witness ==
    /\ \E q \in Range(part1Questions) :
           /\ q.correctAnswer = <<"C">>
           /\ \E k \in 1..Len(q.roles) :
                  /\ q.roles[k].role = "stem"
                  /\ paragraphs[q.roles[k].idx + 1] = ParaNarU
    /\ \E q \in Range(part1Questions) :
           /\ q.correctAnswer = <<"A">>
           /\ \E k \in 1..Len(q.roles) : q.roles[k].role = "answer"

-----------------------------------------------------------------------------
(* C19: the explicit answer marker of section 1 *)

\* the positions in q.roles of the paragraphs the "Chon X" branch took
MarkerNotes(q) == {k \in 1..Len(q.roles) : q.roles[k].role = "answer"}

\* the letter written in the marker paragraph noted in r
MarkerLetter(r) == toUpperCase(MatchChon(paragraphs[r.idx + 1].text).letter)

\* the text t is in the stem, in an option text or in the solution of q
InTexts(q, t) ==
    \/ includes(q.text, t)
    \/ \E k \in 1..Len(q.options) : includes(q.options[k].text, t)
    \/ includes(q.solution, t)

\* q has an underlined option or continuation whose letter is not the
\* letter of any of its markers
UnderlinedElsewhere(q) ==
    \E k \in 1..Len(q.roles) :
        /\ q.roles[k].role \in {"option", "continuation"}
        /\ paragraphs[q.roles[k].idx + 1].hasUnderline
        /\ \A j \in MarkerNotes(q) : MarkerLetter(q.roles[j]) # q.roles[k].letter

\* C19: a section-1 question one of whose paragraphs was taken as a "Chon X"
\* marker has the letter of a marker (the last one) as correctAnswer, wherever
\* its underlined options stand, and the text of the marker paragraph is in
\* none of its stem, option texts and solution.
C19_MarkerWins ==
    \A q \in Range(part1Questions) :
        MarkerNotes(q) # {} =>
            /\ q.correctAnswer = MarkerLetter(q.roles[Max(MarkerNotes(q))])
            /\ \A k \in MarkerNotes(q) : ~InTexts(q, paragraphs[q.roles[k].idx + 1].text)

\* a returned question with "Chon A" and, before it, the underlined option B
C19_Witness ==
    \E q \in Range(part1Questions) :
        /\ MarkerNotes(q) # {}
        /\ UnderlinedElsewhere(q)
        /\ \E k \in 1..Len(q.roles) :
               /\ q.roles[k].role = "option"
               /\ paragraphs[q.roles[k].idx + 1].hasUnderline
               /\ k < Max(MarkerNotes(q))

-----------------------------------------------------------------------------
(* C20: validateExamData *)

\* the stem is empty or made of white space only
BlankStem(q) == \A k \in 1..Len(q.text) : q.text[k] \in WS

\* the questions of d with a blank stem, in order
BlankQuestions(d) == SelectSeq(d.questions, BlankStem)

\* errors is, after skip leading entries, one entry per question of d with a
\* blank stem, naming the question
OnePerBlankStem(errors, d, skip) ==
    /\ Len(errors) = skip + Len(BlankQuestions(d))
    /\ \A k \in 1..Len(BlankQuestions(d)) :
           errors[skip + k] = MissingStemError(BlankQuestions(d)[k])

\* C20 (as claimed): validateExamData leaves its input as it was, valid is
\* true exactly when errors is empty, and errors holds exactly one entry for
\* each question with an empty or whitespace-only stem and no other entry.
C20_OnePerBlankStem ==
    [][validation' # validation =>
          /\ data' = data
          /\ validation'[1].valid = (validation'[1].errors = <<>>)
          /\ OnePerBlankStem(validation'[1].errors, data, 0)]_vars

\* C20 (amended): validateExamData leaves its input as it was, valid is true
\* exactly when errors is empty, and errors holds one entry for each question
\* with an empty or whitespace-only stem, after one more entry when the exam
\* has no question at all, and no other entry.
C20_Errors ==
    [][validation' # validation =>
          /\ data' = data
          /\ validation'[1].valid = (validation'[1].errors = <<>>)
          /\ OnePerBlankStem(validation'[1].errors, data,
                             IF data.questions = <<>> THEN 1 ELSE 0)
          /\ data.questions = <<>> => validation'[1].errors[1] = NoQuestionsError]_vars

\* validateExamData has returned one error for an exam of two questions, one
\* with a stem of white space only and one with an ordinary stem
C20_Witness ==
    /\ validation # <<>>
    /\ \E k \in 1..Len(data.questions) : data.questions[k].text = <<" ", "\n">>
    /\ \E k \in 1..Len(data.questions) : ~BlankStem(data.questions[k])
    /\ Len(validation[1].errors) = 1
    /\ ~validation[1].valid

-----------------------------------------------------------------------------
(* C21, C22: the section ranges *)

\* detectSections has returned
Detected == pc # "extract"

\* some paragraph matches a pattern of the list of this section
Matched(part) ==
    \E k \in 1..Len(paragraphs) :
        LET t == HeaderTable[paragraphs[k].text]
        IN  CASE part = 1 -> t.part1 [] part = 2 -> t.part2 [] part = 3 -> t.part3

\* the question-start paragraphs of the questions of a list
Sources(qs) == {qs[k].src : k \in 1..Len(qs)}

\* C21 (as claimed): the starts detectSections returns are ordered,
\* 0 <= part1Start <= part2Start <= part3Start <= length, and no paragraph is
\* the question start of questions of two section parsers.
C21_OrderedStarts ==
    Detected =>
        /\ 0 <= sectionInfo.part1Start
        /\ sectionInfo.part1Start <= sectionInfo.part2Start
        /\ sectionInfo.part2Start <= sectionInfo.part3Start
        /\ sectionInfo.part3Start <= Len(paragraphs)
        /\ Sources(part1Questions) \cap Sources(part2Questions) = {}
        /\ Sources(part1Questions) \cap Sources(part3Questions) = {}
        /\ Sources(part2Questions) \cap Sources(part3Questions) = {}

\* a section of this type is in the exam
HasSection(sectionType) ==
    \E k \in 1..Len(examData.sections) : examData.sections[k].sectionType = sectionType

\* C22: a section none of whose header patterns matches any paragraph gets
\* its default start, 0 for section 1 and paragraphs.length for sections 2
\* and 3, and a section whose start is paragraphs.length is never parsed and
\* puts no question into the exam.
C22_Defaults ==
    Detected =>
        /\ ~Matched(1) => sectionInfo.part1Start = 0
        /\ ~Matched(2) => sectionInfo.part2Start = Len(paragraphs)
        /\ ~Matched(3) => sectionInfo.part3Start = Len(paragraphs)
        /\ sectionInfo.part2Start = Len(paragraphs) =>
               /\ pc # "part2_loop"
               /\ part2Questions = <<>>
               /\ ~HasSection("true_false")
        /\ sectionInfo.part3Start = Len(paragraphs) =>
               /\ pc # "part3_loop"
               /\ part3Questions = <<>>
               /\ ~HasSection("short_answer")

\* an exam from a document with a section-2 header and questions but no
\* section-3 header: section 3 starts at the end and is missing from the exam
C22_Witness ==
    /\ pc = "done"
    /\ Matched(2) /\ ~Matched(3) /\ ~Matched(1)
    /\ sectionInfo.part3Start = Len(paragraphs)
    /\ HasSection("true_false")
    /\ ~HasSection("short_answer")

-----------------------------------------------------------------------------
(* C23: the question-start paragraph *)

\* the question in progress has a stem to be emitted with: its stem field or
\* its stem buffer holds text
HasStem(l) ==
    /\ l.currentQ # <<>>
    /\ Truthy(l.currentQ[1].text) \/ Truthy(JoinTrim(l.contentBuffer))

\* the accumulators of the running parser are those of a question just begun
FreshAccumulators(l) ==
    /\ l.collectingContent
    /\ l.solutionBuffer = <<>>
    /\ pc = "part1_loop" =>
           /\ ~l.inSolution
           /\ l.currentOptionIndex = -1
           /\ ~l.startedOptions
    /\ pc = "part2_loop" =>
           /\ ~l.inSolution
           /\ l.currentStmtIndex = -1
           /\ ~l.startedStatements
           /\ l.currentQuestionTrueStatements = <<>>

\* C23 (as claimed): in each section parser a paragraph matching the
\* question-start pattern, in whatever state it is read, emits the question
\* in progress exactly when it has a stem, starts a new question with the
\* authored number of the paragraph, seeds the stem buffer with the rest of
\* the line and resets every accumulator of the question.
C23_QuestionStart ==
    [][ReadStep /\ MatchQuestion(Reading.text).ok =>
          LET m == MatchQuestion(Reading.text)
              restText == trim(m.rest)
          IN  /\ loc'.currentQ # <<>>
              /\ loc'.currentQ[1].src = i
              /\ loc'.currentQ[1].number = parseInt(m.num)
              /\ loc'.currentQ[1].text = <<>>
              /\ loc'.currentQ[1].options = <<>>
              /\ loc'.currentQ[1].correctAnswer = Null
              /\ loc'.currentQ[1].solution = <<>>
              /\ loc'.contentBuffer = IF restText = <<>> THEN <<>> ELSE <<restText>>
              /\ FreshAccumulators(loc')
              /\ IF HasStem(loc)
                 THEN /\ Len(loc'.questions) = Len(loc.questions) + 1
                      /\ SubSeq(loc'.questions, 1, Len(loc.questions)) = loc.questions
                      /\ loc'.questions[Len(loc'.questions)].src = loc.currentQ[1].src
                 ELSE loc'.questions = loc.questions]_vars

-----------------------------------------------------------------------------
(* C24: the stem field in sections 1 and 2 *)

InLoop12 == pc \in {"part1_loop", "part2_loop"}

\* the question in progress after this step is the one in progress before it
SameQuestion ==
    /\ loc.currentQ # <<>>
    /\ loc'.currentQ # <<>>
    /\ loc'.currentQ[1].src = loc.currentQ[1].src

\* the questions emitted by this step: by the flush of a question-start
\* paragraph, or by the flush after the loop
Emitted ==
    IF pc' = pc
    THEN {loc'.questions[k] : k \in (Len(loc.questions) + 1)..Len(loc'.questions)}
    ELSE IF pc = "part1_loop" THEN Range(part1Questions') ELSE Range(part2Questions')

\* the stem fragments of the buffer joined with single spaces
JoinedStem(l) == join(l.contentBuffer, <<" ">>)

\* C24: in sections 1 and 2 a step that leaves the question in progress in
\* place changes its stem field only while that is empty, and then to the
\* buffered fragments joined with single spaces; the question is emitted
\* with the stem field it had, or, if that was empty, with the joined buffer.
C24_StemOnce ==
    [][InLoop12 =>
          /\ SameQuestion =>
                /\ Truthy(loc.currentQ[1].text) => loc'.currentQ[1].text = loc.currentQ[1].text
                /\ loc'.currentQ[1].text # loc.currentQ[1].text =>
                       loc'.currentQ[1].text = JoinedStem(loc)
          /\ (loc.currentQ # <<>> /\ ~SameQuestion) =>
                \A q \in Emitted :
                    q.src = loc.currentQ[1].src =>
                        q.text = IF Truthy(loc.currentQ[1].text)
                                 THEN loc.currentQ[1].text ELSE JoinedStem(loc)]_vars

\* section 1 has read "Cau 1. x", a second stem line and two option lines:
\* the stem set at the first option line is still there after the second
C24_Witness ==
    /\ pc = "part1_loop"
    /\ loc.currentQ # <<>>
    /\ loc.currentQ[1].text = <<"x", " ", "c">>
    /\ Len(loc.currentQ[1].options) = 2

-----------------------------------------------------------------------------
(* C25: the solution state *)

\* the positions in q.roles of the paragraphs read after the first solution
\* marker of q
AfterMarker(q) ==
    LET markers == TakenAs(q, {"solutionMarker"})
    IN  IF markers = {} THEN {}
        ELSE {k \in 1..Len(q.roles) : k > Min(markers)}

\* the paragraph noted at position k of q.roles is no marker (solution,
\* explicit answer) and no figure paragraph
SolutionText(q, k) ==
    LET t == paragraphs[q.roles[k].idx + 1].text
    IN  /\ t # <<>>
        /\ ~IsSolutionMarker(t)
        /\ ~IsFigure(t)
        /\ q.part = 1 => ~MatchChon(t).ok
        /\ q.part = 3 => ~MatchAnswer3(t).ok

\* the texts of the paragraphs noted at the positions ks of q.roles that are
\* at or after position k, in order
RECURSIVE TextsFrom(_, _, _)
TextsFrom(q, ks, k) ==
    IF k > Len(q.roles) THEN <<>>
    ELSE (IF k \in ks THEN <<paragraphs[q.roles[k].idx + 1].text>> ELSE <<>>)
             \o TextsFrom(q, ks, k + 1)

\* C25 (as claimed): of a returned question, no paragraph read after its
\* solution marker opened or changed an option, and its solution is the
\* texts of the non-marker, non-figure paragraphs read after the marker,
\* in document order.
C25_SolutionState ==
    \A q \in Range(part1Questions) \cup Range(part2Questions) \cup Range(part3Questions) :
        /\ \A k \in AfterMarker(q) : q.roles[k].role \notin {"option", "continuation"}
        /\ AfterMarker(q) # {} =>
               q.solution =
                   join(TextsFrom(q, {k \in AfterMarker(q) : SolutionText(q, k)}, 1), <<" ">>)

-----------------------------------------------------------------------------
(* C26: the answer of a section-2 question *)

\* the letters of the statements of q whose statement paragraph, or a
\* continuation of it, carries the underline flag
UnderlinedStatements(q) ==
    {toLowerCase(q.roles[k].letter) : k \in UnderlinedOptions(q)}

\* the letters listed in a comma-joined answer
ListedLetters(s) == {<<s[k]>> : k \in {j \in 1..Len(s) : j % 2 = 1}}

\* q has an underlined paragraph that is no statement and no continuation:
\* its question line, a stem paragraph or a solution paragraph
UnderlinedElsewhere2(q) ==
    \/ paragraphs[q.src + 1].hasUnderline
    \/ \E k \in TakenAs(q, {"stem", "solution"}) : paragraphs[q.roles[k].idx + 1].hasUnderline

\* C26: the correctAnswer of a question parsePart2 returns is null exactly
\* when none of its statement paragraphs and continuations carries the
\* underline flag, and otherwise lists exactly the letters of the statements
\* that do; underline on its question line, stem and solution paragraphs
\* counts for nothing.
C26_UnderlinedStatements ==
    \A q \in Range(part2Questions) :
        IF UnderlinedStatements(q) = {}
        THEN q.correctAnswer = Null
        ELSE /\ q.correctAnswer # Null
             /\ IsSortedSubset(q.correctAnswer)
             /\ ListedLetters(q.correctAnswer) = UnderlinedStatements(q)

\* section 2 has returned a question with answer "a" whose question line
\* and whose stem paragraph are underlined too
C26_Witness ==
    /\ \E q \in Range(part2Questions) :
           /\ q.correctAnswer = <<"a">>
           /\ paragraphs[q.src + 1].hasUnderline
           /\ \E k \in TakenAs(q, {"stem"}) : paragraphs[q.roles[k].idx + 1].hasUnderline
    /\ pc = "part3"

-----------------------------------------------------------------------------
(* C27: several underline records in section 1 *)

\* what an underlined paragraph records, by the branch that took it
RecordsOf(para, role, letter) ==
    IF ~para.hasUnderline THEN <<>>
    ELSE IF role \in {"question", "stem"} THEN para.underlinedSegments
    ELSE IF role \in {"option", "continuation"} THEN <<letter>>
    ELSE <<>>

\* the underline records of the paragraphs noted in q.roles from position k
\* on, in the order the paragraphs were read
RECURSIVE RecordsFrom(_, _)
RecordsFrom(q, k) ==
    IF k > Len(q.roles) THEN <<>>
    ELSE RecordsOf(paragraphs[q.roles[k].idx + 1], q.roles[k].role, q.roles[k].letter)
             \o RecordsFrom(q, k + 1)

\* the records of q that are a single letter A-D: those of its question
\* line, then those of the paragraphs after it
LetterRecords(q) ==
    SelectSeq(RecordsOf(paragraphs[q.src + 1], "question", <<>>) \o RecordsFrom(q, 1),
              IsSingleLetter)

\* C27: a section-1 question without a "Chon X" paragraph and with several
\* underline records that are a single letter A-D has the first of them, in
\* the order the paragraphs were read, as correctAnswer.
C27_FirstLetter ==
    \A q \in Range(part1Questions) :
        (TakenAs(q, {"answer"}) = {} /\ Len(LetterRecords(q)) >= 2) =>
            q.correctAnswer = toUpperCase(LetterRecords(q)[1])

\* a returned question whose question line records "d" and whose later
\* paragraphs record other letters: its answer is D
C27_Witness ==
    \E q \in Range(part1Questions) :
        /\ TakenAs(q, {"answer"}) = {}
        /\ Len(LetterRecords(q)) >= 2
        /\ paragraphs[q.src + 1].hasUnderline
        /\ LetterRecords(q)[Len(LetterRecords(q))] # LetterRecords(q)[1]
        /\ q.correctAnswer = <<"D">>

-----------------------------------------------------------------------------
(* C28: an underlined continuation in section 1 *)

\* the letter written in the option line most recently read before the
\* paragraph noted at position k of q.roles
OpenOption(q, k) ==
    LET j == Max({n \in TakenAs(q, {"option"}) : n < k})
    IN  toUpperCase(MatchOption(paragraphs[q.roles[j].idx + 1].text).letter)

\* no paragraph of q read before position k of q.roles left an underline
\* record
NoEarlierRecord(q, k) ==
    /\ RecordsOf(paragraphs[q.src + 1], "question", <<>>) = <<>>
    /\ \A j \in 1..(k - 1) :
           RecordsOf(paragraphs[q.roles[j].idx + 1], q.roles[j].role, q.roles[j].letter) = <<>>

\* the underlined continuations of q read before any other underline record
FirstUnderlinedContinuations(q) ==
    {k \in TakenAs(q, {"continuation"}) :
        paragraphs[q.roles[k].idx + 1].hasUnderline /\ NoEarlierRecord(q, k)}

\* C28: a section-1 question without a "Chon X" paragraph whose first
\* underline record comes from an underlined continuation of option X has X
\* as correctAnswer, as if the option line of X had been underlined.
C28_UnderlinedContinuation ==
    \A q \in Range(part1Questions) :
        TakenAs(q, {"answer"}) = {} =>
            \A k \in FirstUnderlinedContinuations(q) : q.correctAnswer = OpenOption(q, k)

\* "A. x" followed by an underlined continuation: the answer is A
C28_Witness ==
    \E q \in Range(part1Questions) :
        /\ TakenAs(q, {"answer"}) = {}
        /\ FirstUnderlinedContinuations(q) # {}
        /\ q.correctAnswer = <<"A">>

-----------------------------------------------------------------------------
(* C29: section 3 and underline *)

\* the paragraph without its underline
StripUnderline(para) == [para EXCEPT !.hasUnderline = FALSE, !.underlinedSegments = <<>>]

\* the document without any underline
Stripped == [k \in 1..Len(paragraphs) |-> StripUnderline(paragraphs[k])]

\* parsePart3 has returned
Part3Returned == pc \in {"assemble", "done"}

\* C29: what parsePart3 returns for the document is what it returns for the
\* document without its underline flags and segments, and a question it
\* returns has a non-null correctAnswer only if one of its paragraphs was
\* taken as an answer line; then it is the trimmed remainder of the last one.
C29_NoUnderline ==
    Part3Returned =>
        /\ part3Questions =
               parsePart3(Stripped, sectionInfo.part3Start, Len(paragraphs), images)
        /\ \A q \in Range(part3Questions) :
               IF TakenAs(q, {"answer"}) = {}
               THEN q.correctAnswer = Null
               ELSE q.correctAnswer =
                        trim(MatchAnswer3(
                                 paragraphs[q.roles[Max(TakenAs(q, {"answer"}))].idx + 1].text).ans)

\* section 3 has returned a question with an underlined statement-like
\* paragraph in its stem and the answer "4" of its answer line
C29_Witness ==
    /\ Part3Returned
    /\ \E q \in Range(part3Questions) :
           /\ q.correctAnswer = <<"4">>
           /\ \E k \in TakenAs(q, {"stem"}) : paragraphs[q.roles[k].idx + 1].hasUnderline

-----------------------------------------------------------------------------
(* C30: the order of the questions of the exam *)

\* the question lists of the sections from section k on, concatenated
RECURSIVE SectionQuestions(_, _)
SectionQuestions(sections, k) ==
    IF k > Len(sections) THEN <<>>
    ELSE sections[k].questions \o SectionQuestions(sections, k + 1)

\* C30: in the returned ExamData, questions is the concatenation of the
\* question lists of sections in order, the sections stand in the order
\* section 1, section 2, section 3, and the questions of each section are in
\* non-decreasing order of authored number, wherever they stand in the
\* document.
C30_QuestionOrder ==
    pc = "done" =>
        /\ examData.questions = SectionQuestions(examData.sections, 1)
        /\ \A j, k \in 1..Len(examData.sections) :
               j < k => SectionIndex(examData.sections[j].sectionType)
                            < SectionIndex(examData.sections[k].sectionType)
        /\ \A s \in 1..Len(examData.sections) :
               LET qs == examData.sections[s].questions
               IN  \A j, k \in 1..Len(qs) :
                       j < k => AuthoredNumber(qs[j]) <= AuthoredNumber(qs[k])

\* an exam with a section whose second question stands before its first
\* question in the document
C30_Witness ==
    /\ pc = "done"
    /\ \E s \in 1..Len(examData.sections) :
           LET qs == examData.sections[s].questions
           IN  /\ Len(qs) >= 2
               /\ qs[1].src > qs[2].src
               /\ AuthoredNumber(qs[1]) < AuthoredNumber(qs[2])

-----------------------------------------------------------------------------
(* C31: the section recovered from the encoded number *)

\* validateExamData: Math.floor(q.number / 100)
PartOfNumber(q) == q.number \div 100

\* scoringService detectSections: Math.floor(q.number / 100) || 1
ScoringPart(q) == IF q.number \div 100 = 0 THEN 1 ELSE q.number \div 100

\* C31 (as claimed): for every question of a section of the exam, the part
\* that validateExamData and the scoring service recover from the encoded
\* number is the section index of the parser that produced the question, and
\* the number modulo 100 is the number written in its question-start paragraph.
C31_DecodedSection ==
    \A s \in 1..Len(examData.sections) :
        \A k \in 1..Len(examData.sections[s].questions) :
            LET q == examData.sections[s].questions[k]
                section == SectionIndex(examData.sections[s].sectionType)
            IN  /\ PartOfNumber(q) = section
                /\ ScoringPart(q) = section
                /\ q.number % 100 = AuthoredNumber(q)

-----------------------------------------------------------------------------
(* C32: how attachImages resolves a reference *)

\* the positions of the assets a reference names by relationship id, and by
\* a non-empty file name it contains
RIdMatches(r) ==
    {k \in 1..Len(attaching.images) : attaching.images[k].rId = r}
NameMatches(r) ==
    {k \in 1..Len(attaching.images) :
        /\ attaching.images[k].filename # <<>>
        /\ includes(r, attaching.images[k].filename)}

\* asset k is the one reference r stands for
StandsFor(r, k) ==
    \/ k \in RIdMatches(r) /\ \A j \in RIdMatches(r) : k <= j
    \/ RIdMatches(r) = {} /\ k \in NameMatches(r) /\ \A j \in NameMatches(r) : k <= j

\* C32: a call attachImages(q, rIds, images) returns normally; it keeps the
\* images q had, in their order; for every reference with an asset of that
\* rId, the first such asset is in q.images afterwards; for every reference
\* without one but with an asset whose non-empty file name it contains, the
\* first such asset is in q.images afterwards; and nothing else is added: an
\* asset is new in q.images only if some reference stands for it in this way
\* (so a reference matching neither adds nothing, and a file-name match never
\* displaces an rId match).
C32_Resolution ==
    [][attaching'.n = attaching.n + 1
          => LET before == attaching.q
                 after == attaching'.q
                 rIds == attaching'.rIds
             IN  /\ Len(after) >= Len(before)
                 /\ SubSeq(after, 1, Len(before)) = before
                 /\ \A x \in 1..Len(rIds) :
                       \A k \in 1..Len(attaching.images) :
                          StandsFor(rIds[x], k) => attaching.images[k] \in Range(after)
                 /\ \A a \in (Len(before) + 1)..Len(after) :
                       \E x \in 1..Len(rIds), k \in 1..Len(attaching.images) :
                          /\ StandsFor(rIds[x], k)
                          /\ after[a] = attaching.images[k]
      ]_vars

\* the call just made referred to r1; the first asset has the file name "1",
\* which r1 contains, and no rId; the second has the rId r1; the question
\* holds the second and not the first
C32_Witness ==
    /\ attaching.n > 0
    /\ <<"r", "1">> \in Range(attaching.rIds)
    /\ Len(attaching.images) = 2
    /\ attaching.images[1].filename = <<"1">> /\ attaching.images[1].rId = <<>>
    /\ attaching.images[2].rId = <<"r", "1">>
    /\ attaching.images[2] \in Range(attaching.q)
    /\ attaching.images[1] \notin Range(attaching.q)

-----------------------------------------------------------------------------
(* C33: the images of a question *)

\* the images lists of the question in progress, of the questions the
\* section parsers returned, and of the questions of the exam
ImageLists ==
    {q.images : q \in ParserOutputs}
        \cup (IF InLoop /\ loc.currentQ # <<>> THEN {loc.currentQ[1].images} ELSE {})
        \cup {examData.questions[k].images : k \in 1..Len(examData.questions)}
        \cup UNION {{examData.sections[s].questions[k].images :
                        k \in 1..Len(examData.sections[s].questions)} :
                    s \in 1..Len(examData.sections)}

\* C33: at every point of parseAllQuestions the asset list is the one the
\* Media Resolver returned; every image of every question (in progress,
\* returned by a section parser, or in the exam) is an asset of that list,
\* field for field; and no images list holds the same asset twice.
C33_ImagesAreAssets ==
    /\ images = Assets
    /\ \A l \in ImageLists :
          /\ \A k \in 1..Len(l) : l[k] \in Range(images)
          /\ \A j, k \in 1..Len(l) : j # k => l[j] # l[k] /\ l[j].id # l[k].id

\* the exam of a document in which two paragraphs of one question each refer
\* to r1 twice and to b.png once: the question holds both assets, once each
C33_Witness ==
    /\ pc = "done"
    /\ \E j, k \in 1..Len(paragraphs) :
          j < k /\ paragraphs[j] = ParaHinhHai /\ paragraphs[k] = ParaHinhHai
    /\ \E k \in 1..Len(examData.questions) :
          /\ examData.questions[k].images = Assets
          /\ Cardinality({x \in 1..Len(examData.questions[k].roles) :
                 paragraphs[examData.questions[k].roles[x].idx + 1] = ParaHinhHai}) = 2

-----------------------------------------------------------------------------
(* C34 - C35: the reads of parseWordToExam and its interleaved calls *)

\* this step is the one in which call c parses the document and resolves its
\* image references: parseAllQuestions runs in the continuation of the
\* document read and the call returns
Resolves(c) == calls[c].outcome = "pending" /\ calls'[c].outcome = "returned"

\* the media and manifest reads call c has issued and that have not settled
PendingExtraction(cl) == {read \in cl.pending : read[1] \in {"rels", "media"}}

\* C34: the step in which a call resolves image references is taken with no
\* manifest or media read of that call pending, and either after the loop
\* has gone over every entry of zip.files or after a read has failed and
\* ended the loop (so that no further read is ever issued); and from the
\* moment the document read is issued it is the only read of the call in
\* flight.
C34_ReadsBeforeResolution ==
    [][\A c \in Callers :
          /\ Resolves(c) =>
                /\ PendingExtraction(calls[c]) = {}
                /\ PendingExtraction(calls'[c]) = {}
                /\ calls[c].k = Len(calls[c].file.files) \/ calls[c].warnings > 0
          /\ DocumentRead \in calls'[c].pending => calls'[c].pending = {DocumentRead}
      ]_vars

\* call A has returned an exam with two images, each read from its media
\* entry, while call B waits for a media read
C34_Witness ==
    /\ calls["A"].outcome = "returned"
    /\ Len(calls["A"].value[1].images) = 2
    /\ calls["B"].awaiting = MediaRead(2)

\* parseWordToExam(f) run alone, from a call record to the end of the call
RECURSIVE RunAlone(_)
RunAlone(cl) ==
    IF cl.pc = "done" THEN cl
    ELSE LET read == NextRead(cl)
             alone == [c \in {"A"} |-> cl]
         IN  RunAlone(IF read # <<>>
                      THEN Resume([alone EXCEPT !["A"].pending = {}], "A", read)
                      ELSE Proceed(alone, "A"))

\* what the promise of a finished call settles with
Settlement(cl) == [outcome |-> cl.outcome, value |-> cl.value]

\* C35: whatever the other call is doing or has done, a finished call has
\* settled as parseWordToExam settles for its file when it runs alone: the
\* same rejection, or the same ExamData.
C35_Isolation ==
    \A c \in Callers :
        calls[c].pc = "done" =>
            Settlement(calls[c])
                = Settlement(RunAlone([NotStarted EXCEPT !.file = calls[c].file, !.pc = "load"]))

\* both calls have returned, A an exam with two images and B, whose second
\* media read failed, an exam with one
C35_Witness ==
    /\ calls["A"].outcome = "returned" /\ calls["B"].outcome = "returned"
    /\ Len(calls["A"].value[1].images) = 2
    /\ Len(calls["B"].value[1].images) = 1
    /\ calls["B"].warnings = 1

-----------------------------------------------------------------------------
(* C37 - C38: normalizeLatex *)

\* a text as its maximal runs of dollar signs and its other characters, in
\* order: [c |-> "$", n |-> length of the run] or [c |-> character, n |-> 1]
RECURSIVE RunsOf(_)
RunsOf(s) ==
    IF s = <<>> THEN <<>>
    ELSE IF s[1] # "$" THEN <<[c |-> s[1], n |-> 1]>> \o RunsOf(Tail(s))
    ELSE LET stop == Min({k \in 2..(Len(s) + 1) : k > Len(s) \/ s[k] # "$"})
         IN  <<[c |-> "$", n |-> stop - 1]>> \o RunsOf(SubSeq(s, stop, Len(s)))

\* C37 (as claimed): for a text in which nothing else is rewritten (no
\* backslash), normalizeLatex returns the text with every maximal run of
\* three or more dollar signs replaced by two dollar signs, the runs of one
\* or two dollar signs and all other characters as they were.
C37_DollarRuns ==
    (latex.out # <<>> /\ Backslash \notin Range(latex.text)) =>
        RunsOf(latex.out[1]) =
            [k \in 1..Len(RunsOf(latex.text)) |->
                LET r == RunsOf(latex.text)[k]
                IN  IF r.c = "$" /\ r.n >= 3 THEN [c |-> "$", n |-> 2] ELSE r]

\* the texts without a backslash or a dollar sign
IsPlain(s) == \A k \in 1..Len(s) : s[k] \notin {Backslash, "$"}

\* C38 (as claimed): a text before \[X\] after, with X not empty and no
\* backslash or dollar sign in before, X and after, is returned as
\* before $$X$$ after; and before \(X\) after as before $X$ after.
C38_MathForms ==
    latex.out # <<>> =>
        \A a, b \in 1..Len(latex.text) :
            LET before == SubSeq(latex.text, 1, a - 1)
                opening == SubSeq(latex.text, a, a + 1)
                X == SubSeq(latex.text, a + 2, b - 1)
                closing == SubSeq(latex.text, b, b + 1)
                after == SubSeq(latex.text, b + 2, Len(latex.text))
            IN  (a + 2 < b /\ b < Len(latex.text)
                   /\ IsPlain(before) /\ IsPlain(X) /\ IsPlain(after))
                => /\ (opening = <<Backslash, "[">> /\ closing = <<Backslash, "]">>)
                        => latex.out[1] = before \o <<"$", "$">> \o X \o <<"$", "$">> \o after
                   /\ (opening = <<Backslash, "(">> /\ closing = <<Backslash, ")">>)
                        => latex.out[1] = before \o <<"$">> \o X \o <<"$">> \o after

-----------------------------------------------------------------------------
(* C36: the record of a paragraph *)

\* C36 (as claimed): the record the extractor pushes for a w:p element names
\* every relationship id at most once in imageRIds, and it has a text or an
\* image id.
C36_RecordImages ==
    extraction.out # <<>> =>
        LET rec == extraction.out[1]
        IN  /\ \A j, k \in 1..Len(rec.imageRIds) :
                  j # k => rec.imageRIds[j] # rec.imageRIds[k]
            /\ ~(rec.text = <<>> /\ rec.imageRIds = <<>>)

=============================================================================
